---- MODULE Spec2Model ----
(***************************************************************************)
(* Trade lifecycle of the Telegram signal trader: the Trade rows of the    *)
(* store, the handlers of app/api/trades.py and app/api/telegram.py, the   *)
(* auto-trade gate of app/services/auto_trade_service.py, the periodic     *)
(* reconciliation task of main.py, and the brokerage's order book as the   *)
(* environment.                                                            *)
(*                                                                         *)
(* A handler is one action, from the request to the commit of its session; *)
(* lastOp holds its reply until deliver_response hands it to the caller,   *)
(* and the next request is served after that. In the second that           *)
(* execute_trade_internal waits before its status check the brokerage may  *)
(* already have moved the new order to any status.                         *)
(***************************************************************************)
EXTENDS Integers, Sequences, FiniteSets, TLC

\* ---------------------------------------------------------------- bounds
MaxTrades == 1
MaxOrders == 2
SweepTrades == 2   \* submitted trades in the store when the sweeps are studied
MaxInstances == 3  \* broker instances constructed while the registry is studied
MaxThreads == 2    \* concurrent callers of the instrument index
MaxInstruments == 2  \* length of the instrument lists _build_index is studied on
MaxDays == 3       \* days the clock runs: Wednesday 29 January to Saturday 1 February
MaxSymbolLen == 20 \* length of the symbols of the trades that are executed

\* ------------------------------------------------------- program constants
SyncBatchLimit == 50          \* .limit(50) of the periodic sweep
DefaultMaxTradesPerDay == 10  \* AppSettings.max_trades_per_day default
DefaultPriceTolerance == 2    \* AppSettings.price_tolerance_percent default (2.0)
LimitOrderPerMille == 5       \* the 0.5 (percent) above which the order is LIMIT

NULL == "NULL"                \* a nullable column holding None

\* ------------------------------------------------------------ vocabulary
NonTerminal == {"PENDING", "SUBMITTED", "OPEN"}
Terminal == {"EXECUTED", "REJECTED", "CANCELLED"}
Statuses == NonTerminal \cup Terminal \cup {"FAILED"}

\* Order statuses the Angel One order book reports; the last one is not in
\* the backend's vocabulary.
VendorStatuses == {"open", "complete", "rejected", "cancelled", "modify validation pending"}
VendorFinal == {"complete", "rejected", "cancelled"}

\* Error messages place_order returns.
InsufficientMargin == "insufficient margin"
SessionExpired == "Session expired, please re-login"
PlaceErrors == {InsufficientMargin, SessionExpired}
BracketErrors == {"Bracket order failed"}

\* The message of the broker service itself, in place of the handler's.
ServiceNotLoggedInMessage == "Not logged in"

NotLoggedInDetail == "Broker not logged in"
NotPendingDetail == "Trade is not pending approval"
LimitDetail == "Daily trade limit reached"

\* Prices of a trade request: <<entry_price, target_price, stop_loss>>, 0 for
\* an absent (None) price.
PriceInputs == { <<100, 110, 90>>, <<100, 0, 90>> }

OrderId(n) == "ORD" \o ToString(n)
PaperOrderId(k) == "PAPER-" \o ToString(k)

VARIABLES
    settings,          \* the AppSettings row (exists = FALSE: no row yet)
    trades,            \* the committed Trade rows, by id 1..Len(trades)
    legacy_logged_in,  \* broker_service.is_logged_in (module-level instance)
    active_logged_in,  \* is_logged_in of the registry's active broker
    book,              \* the brokerage's order book: order id -> vendor status
    placed,            \* number of orders the brokerage accepted so far
    paper_trades,      \* number of PaperTrade rows
    lastOp,            \* what the last handler returned and got from place_order
    order_sync_task,   \* the task of periodic_order_status_sync: running or cancelled
    auto_order,        \* the order process_signal placed, until its reply is delivered
    signal,            \* the signal under study (NoSignal: any signal of the channel)
    brokers,           \* the keys of BrokerRegistry._brokers, in insertion order
    instances,         \* BrokerRegistry._instances: broker type -> cached instance
    default_broker,    \* BrokerRegistry._default_broker (NULL: none)
    created,           \* number of broker instances constructed so far
    returned,          \* what the last call of the registry returned or raised
    backend_logged_in, \* is_logged_in of an instance of each backend
    reply,             \* what the last call of a backend's interface returned
    symbol_master,     \* the fields of the global SymbolMaster
    threads,           \* the callers of symbol_master: position and locals
    cache_file,        \* SymbolMaster.CACHE_FILE: whether it exists, its content
    scrip_master,      \* the instrument lists INSTRUMENT_URL may serve
    now,               \* datetime.now(): days since 29 January 2025, and the hour
    resolution,        \* the last call of resolve_symbol and what it returned
    broker_config      \* the BrokerConfig row of angel_one (exists = FALSE: none)

\* The registry of broker_registry.py.
registry_vars == <<brokers, instances, default_broker, created, returned>>

\* The state the trade handlers of the API never write.
ext_vars == <<order_sync_task, auto_order, signal, brokers, instances,
              default_broker, created, returned, backend_logged_in, reply,
              symbol_master, threads, cache_file, scrip_master, now,
              resolution, broker_config>>

\* What the login handlers of api/broker.py leave alone outside the trade state.
login_frame == <<order_sync_task, auto_order, signal, brokers, instances,
                 default_broker, created, returned, backend_logged_in, reply,
                 symbol_master, threads, cache_file, scrip_master, now,
                 resolution>>

\* The backends of broker_service.py, zerodha_broker_service.py and
\* shoonya_broker_service.py.
backend_vars == <<backend_logged_in, reply>>

\* The instrument index of broker_service.py and its callers.
index_vars == <<symbol_master, threads, cache_file, scrip_master>>

\* The clock and the symbol resolver of symbol_resolver.py.
resolver_vars == <<now, resolution>>

vars == <<settings, trades, legacy_logged_in, active_logged_in, book, placed,
          paper_trades, lastOp, order_sync_task, auto_order, signal, brokers,
          instances, default_broker, created, returned, backend_logged_in,
          reply, symbol_master, threads, cache_file, scrip_master, now,
          resolution, broker_config>>

\* --------------------------------------------------------------- helpers
SettingsRows ==
    [exists : {TRUE},
     auto_trade_enabled : BOOLEAN, require_manual_approval : BOOLEAN,
     paper_trading_enabled : BOOLEAN,
     max_trades_per_day : {1, DefaultMaxTradesPerDay},
     active_broker_type : {"angel_one"},
     price_tolerance_percent : {DefaultPriceTolerance}]

\* AppSettings(): the column defaults.
DefaultSettings ==
    [exists |-> TRUE,
     auto_trade_enabled |-> FALSE, require_manual_approval |-> TRUE,
     paper_trading_enabled |-> TRUE,
     max_trades_per_day |-> DefaultMaxTradesPerDay,
     active_broker_type |-> "angel_one",
     price_tolerance_percent |-> DefaultPriceTolerance]

\* db.query(AppSettings).first() is None.
NoSettings == [DefaultSettings EXCEPT !.exists = FALSE]

\* Trade(...): a new row for a request or a signal, here SBIN on NSE; notes
\* is None.
NewTrade(prices) ==
    [status |-> "PENDING", order_id |-> NULL, error_message |-> NULL,
     broker_status |-> NULL, broker_rejection_reason |-> NULL,
     entry_price |-> prices[1], target_price |-> prices[2],
     stop_loss |-> prices[3],
     symbol |-> "SBIN", exchange |-> "NSE", notes |-> NULL]

\* op: the handler that ran; trade: the id of the row it acted on (0: none);
\* code: its HTTP status (0: not an HTTP request); detail: the error detail or
\* the result's reason; place: what place_order / place_bracket_order returned
\* ("none": not called).
Op(op, trade, code, detail, place) ==
    [op |-> op, trade |-> trade, code |-> code, detail |-> detail,
     place |-> place]

TradeIds == 1..Len(trades)

\* The backend's translation of the vendor's order status.
InternalStatus(vendor) ==
    IF vendor = "complete" THEN "EXECUTED"
    ELSE IF vendor = "rejected" THEN "REJECTED"
    ELSE IF vendor = "cancelled" THEN "CANCELLED"
    ELSE IF vendor \in {"open", "pending", "trigger pending",
                        "after market order req received"} THEN "OPEN"
    ELSE "PENDING"

\* order.get('text') when the order is rejected, else None.
RejectionReason(vendor) ==
    IF vendor = "rejected" THEN "RMS:Rule: margin exceeds" ELSE NULL

\* check_trade_limits: every row of the model was created today.
TradeLimitAllowed ==
    IF ~settings.exists THEN TRUE
    ELSE ~(Len(trades) >= settings.max_trades_per_day)

\* A gate that overlooks require_manual_approval.
AutoExecuteWithoutApprovalCheck ==
    /\ settings.exists
    /\ settings.auto_trade_enabled

AutoExecute ==
    /\ settings.exists
    /\ settings.auto_trade_enabled
    /\ ~settings.require_manual_approval

\* No reply is waiting to be delivered.
Idle == Op("idle", 0, 0, NULL, "none")

\* Brokers lifespan registers at start-up, and a BrokerType nobody registers.
RegisteredBrokers == {"angel_one", "zerodha", "shoonya"}
LifespanRegistrations == <<"angel_one", "zerodha", "shoonya">>
UnregisteredBroker == "upstox"

\* broker_type in self._brokers.
Registered == {brokers[i] : i \in DOMAIN brokers}

\* What a call of the registry returned: an instance (0: None), or the error
\* it raised.
Returned(call, broker_type, cache, instance, error) ==
    [call |-> call, broker_type |-> broker_type, cache |-> cache,
     instance |-> instance, error |-> error]

NoReturn == Returned(NULL, NULL, FALSE, 0, NULL)

\* A Python dict: its keys in insertion order and the value of each key.
EmptyDict == [keys |-> <<>>, val |-> <<>>]

Has(dict, key) == key \in DOMAIN dict.val

\* dict[key] = value: a new key goes last, a known key keeps its place.
Put(dict, key, value) ==
    [keys |-> IF Has(dict, key) THEN dict.keys ELSE Append(dict.keys, key),
     val |-> (key :> value) @@ dict.val]

\* The values of the dict (each once).
Values(dict) == {dict.val[k] : k \in DOMAIN dict.val}

\* SymbolMaster.__init__: nothing indexed, not loaded, not loading.
NewSymbolMaster ==
    [instruments |-> EmptyDict, name_index |-> EmptyDict,
     loaded |-> FALSE, loading |-> FALSE]

\* The clock starts on the morning of Wednesday 29 January 2025.
StartOfClock == [day_index |-> 0, hour |-> 10]

\* resolve_symbol has not been called.
NoResolution ==
    [raw_symbol |-> NULL, exchange |-> NULL,
     result |-> [success |-> FALSE, original |-> "", underlying |-> NULL,
                 resolved_symbol |-> "", token |-> NULL, exchange |-> "",
                 instrument_type |-> "", message |-> ""]]

\* The symbols the callers of get_token ask for.
ReadSymbols == {"SBIN"}

\* The cache file does not exist.
NoCacheFile == [exists |-> FALSE, content |-> <<>>]

\* What the vendor answers to a quote request: an error, or a response with a
\* last traded price (0: the response carries no price).
LtpError == [status |-> "error", ltp |-> 0]
LtpResults == {LtpError} \cup {[status |-> "success", ltp |-> p] : p \in {0, 100, 200}}

\* The value a backend's get_ltp returns. kind: its Python type; status: the
\* "status" key of a dict; has_data, data_ltp: the "data" key of a dict and the
\* "ltp" in it; ltp: the "ltp" key of a dict, or the float itself (0: None).
LtpResponse(kind, status, has_data, data_ltp, ltp) ==
    [kind |-> kind, status |-> status, has_data |-> has_data,
     data_ltp |-> data_ltp, ltp |-> ltp]

\* AngelOneBrokerService.get_ltp: {"status": "error", "message": ...} when not
\* logged in or on an exception, the response of SmartAPI's ltpData otherwise
\* ({"status": true, "data": {"ltp": ...}}, or {"status": false, "data": null}).
AngelOne_get_ltp(logged_in, quote) ==
    IF ~logged_in THEN LtpResponse("dict", "error", FALSE, 0, 0)
    ELSE IF quote.status # "success" THEN LtpResponse("dict", "false", FALSE, 0, 0)
    ELSE LtpResponse("dict", "true", TRUE, quote.ltp, 0)

\* ZerodhaBrokerService.get_ltp: Optional[float], the last_price of the quote,
\* or None when not logged in, on an exception or without a quote.
Zerodha_get_ltp(logged_in, quote) ==
    IF ~logged_in THEN LtpResponse("None", NULL, FALSE, 0, 0)
    ELSE IF quote.status # "success" \/ quote.ltp = 0
    THEN LtpResponse("None", NULL, FALSE, 0, 0)
    ELSE LtpResponse("float", NULL, FALSE, 0, quote.ltp)

\* ShoonyaBrokerService.get_ltp: {"status": "success", "ltp": float(lp)}, or
\* {"status": "error", "ltp": None}.
Shoonya_get_ltp(logged_in, quote) ==
    IF ~logged_in THEN LtpResponse("dict", "error", FALSE, 0, 0)
    ELSE IF quote.status # "success" THEN LtpResponse("dict", "error", FALSE, 0, 0)
    ELSE LtpResponse("dict", "success", FALSE, 0, quote.ltp)

\* A parsed signal as handle_new_message hands it to process_signal, with what
\* the market answers while it is processed. has_fields: it names a symbol and
\* an action; exchange: the exchange it names (NSE by default); found_on: the
\* exchanges where search_symbols finds its symbol; entry_price: 0 for none.
Signal(has_fields, exchange, found_on, entry_price, target_price, ltp_result) ==
    [has_fields |-> has_fields, exchange |-> exchange, found_on |-> found_on,
     entry_price |-> entry_price, target_price |-> target_price,
     ltp_result |-> ltp_result]

NoSignal == Signal(FALSE, NULL, {}, 0, 0, LtpError)

\* The order process_signal placed: venue "broker" for place_order of the
\* active broker, "paper" for the paper trading service. A price of 0 is None.
AutoOrder(venue, order_type, price) ==
    [venue |-> venue, order_type |-> order_type, price |-> price]

\* process_signal placed no order.
NoOrder == AutoOrder("none", NULL, 0)

\* What a call of a backend's interface returned. result: the message of an
\* error result, or the kind of value returned; network: the call went to
\* the network; vendor: the vendor's order status in the response;
\* internal_status: the internal status the backend reports (NULL: none).
BackendReply(backend, method, result, network, vendor, internal_status) ==
    [backend |-> backend, method |-> method, result |-> result,
     network |-> network, vendor |-> vendor,
     internal_status |-> internal_status]

\* The BrokerConfig rows of angel_one: configure_broker stores the credentials
\* encrypted under the key of the day; decryptable tells whether
\* encryption_manager.decrypt still reads them.
NoConfig ==
    [exists |-> FALSE, totp_secret |-> FALSE, decryptable |-> FALSE,
     is_active |-> FALSE]

BrokerConfigs ==
    {NoConfig} \cup [exists : {TRUE}, totp_secret : BOOLEAN,
                     decryptable : BOOLEAN, is_active : BOOLEAN]

\* The row after a login of an earlier run of the server.
ActiveConfig ==
    [exists |-> TRUE, totp_secret |-> TRUE, decryptable |-> TRUE,
     is_active |-> TRUE]

NoReply == BackendReply(NULL, NULL, NULL, FALSE, NULL, NULL)

Init ==
    /\ settings \in {NoSettings, DefaultSettings}
    /\ trades = <<>>
    /\ legacy_logged_in = FALSE
    /\ active_logged_in = FALSE
    /\ book = <<>>
    /\ placed = 0
    /\ paper_trades = 0
    /\ lastOp = Idle
    /\ order_sync_task = "running"
    /\ auto_order = NoOrder
    /\ signal = NoSignal
    /\ brokers = LifespanRegistrations
    /\ instances = <<>>
    /\ default_broker = "angel_one"
    /\ created = 0
    /\ returned = NoReturn
    /\ backend_logged_in = [b \in RegisteredBrokers |-> FALSE]
    /\ reply = NoReply
    /\ symbol_master = NewSymbolMaster
    /\ threads = <<>>
    /\ cache_file = NoCacheFile
    /\ scrip_master = {}
    /\ now = StartOfClock
    /\ resolution = NoResolution
    /\ broker_config = ActiveConfig

\* ------------------------------------------- broker_service.py: SymbolMaster
\* str.upper() on the letters the instruments use.
LowerToUpper ==
    [c \in {"a", "b", "c", "d", "e", "f", "g", "h", "i", "j", "k", "l", "m",
            "n", "o", "p", "q", "r", "s", "t", "u", "v", "w", "x", "y", "z"} |->
        CASE c = "a" -> "A" [] c = "b" -> "B" [] c = "c" -> "C"
          [] c = "d" -> "D" [] c = "e" -> "E" [] c = "f" -> "F"
          [] c = "g" -> "G" [] c = "h" -> "H" [] c = "i" -> "I"
          [] c = "j" -> "J" [] c = "k" -> "K" [] c = "l" -> "L"
          [] c = "m" -> "M" [] c = "n" -> "N" [] c = "o" -> "O"
          [] c = "p" -> "P" [] c = "q" -> "Q" [] c = "r" -> "R"
          [] c = "s" -> "S" [] c = "t" -> "T" [] c = "u" -> "U"
          [] c = "v" -> "V" [] c = "w" -> "W" [] c = "x" -> "X"
          [] c = "y" -> "Y" [] OTHER -> "Z"]

RECURSIVE Upper(_)
Upper(str) ==
    IF str = "" THEN ""
    ELSE LET c == SubSeq(str, 1, 1)
         IN (IF c \in DOMAIN LowerToUpper THEN LowerToUpper[c] ELSE c)
                \o Upper(SubSeq(str, 2, Len(str)))

\* "sub in str" of Python.
Contains(str, sub) ==
    \E i \in 1..(Len(str) - Len(sub) + 1) :
        SubSeq(str, i, i + Len(sub) - 1) = sub

\* One element of the instrument list: a JSON object with the fields the
\* index reads, or a value that is no object (inst.get then raises).
Instrument(symbol, name, exch_seg, token) ==
    [symbol |-> symbol, name |-> name, exch_seg |-> exch_seg,
     token |-> token, object |-> TRUE]

NotAnObject ==
    [symbol |-> "", name |-> "", exch_seg |-> "", token |-> NULL,
     object |-> FALSE]

\* One iteration of the loop of _build_index over the two dicts.
BuildAdd(index, inst) ==
    LET key == inst.exch_seg \o ":" \o inst.symbol
        trading_key == inst.exch_seg \o ":" \o inst.name
        by_symbol == Put(index.instruments, key, inst)
        by_name == IF Has(by_symbol, trading_key) THEN by_symbol
                   ELSE Put(by_symbol, trading_key, inst)
        name_upper == Upper(inst.name)
        listed == IF Has(index.name_index, name_upper)
                  THEN index.name_index.val[name_upper] ELSE <<>>
    IN  IF name_upper = ""
        THEN [instruments |-> by_name, name_index |-> index.name_index]
        ELSE [instruments |-> Put(by_name, trading_key, inst),
              name_index |-> Put(index.name_index, name_upper,
                                 Append(listed, inst))]

\* _build_index run to its end on a list of objects: the loop goes on from
\* the dicts as the iterations before it left them.
RECURSIVE BuildFrom(_, _, _)
BuildFrom(index, instruments_list, i) ==
    IF i > Len(instruments_list) \/ index.instruments.keys = <<NULL>> THEN index
    ELSE BuildFrom(BuildAdd(index, instruments_list[i]), instruments_list, i + 1)

BuildIndex(instruments_list) ==
    BuildFrom([instruments |-> EmptyDict, name_index |-> EmptyDict],
              instruments_list, 1)

WellFormed(instruments_list) ==
    \A i \in DOMAIN instruments_list : instruments_list[i].object

\* get_token once the instruments are there: the exact key, the -EQ key on
\* NSE, then the first instrument of that name on the exchange.
GetToken(instruments, symbol, exchange) ==
    LET key == exchange \o ":" \o symbol
        eq_key == exchange \o ":" \o symbol \o "-EQ"
        named == SelectSeq(instruments.keys,
                     LAMBDA k : /\ Upper(instruments.val[k].name) = Upper(symbol)
                                /\ instruments.val[k].exch_seg = exchange)
    IN  IF Has(instruments, key) THEN instruments.val[key].token
        ELSE IF exchange = "NSE" /\ Has(instruments, eq_key)
        THEN instruments.val[eq_key].token
        ELSE IF named # <<>> THEN instruments.val[Head(named)].token
        ELSE NULL

\* One entry of search_symbol's result.
SearchResult(inst) ==
    [symbol |-> inst.symbol, name |-> inst.name, token |-> inst.token,
     exchange |-> inst.exch_seg]

\* The loop of search_symbol from the i-th key on.
RECURSIVE SearchFrom(_, _, _, _, _, _, _)
SearchFrom(instruments, query_upper, exchange, limit, i, results, seen) ==
    IF i > Len(instruments.keys) \/ Len(results) >= limit THEN results
    ELSE LET inst == instruments.val[instruments.keys[i]]
             unique_key == <<inst.token, inst.exch_seg>>
             hit == /\ unique_key \notin seen
                    /\ \/ Contains(Upper(inst.name), query_upper)
                       \/ Contains(Upper(inst.symbol), query_upper)
                    /\ exchange = NULL \/ inst.exch_seg = exchange
         IN  SearchFrom(instruments, query_upper, exchange, limit, i + 1,
                        IF hit THEN Append(results, SearchResult(inst))
                        ELSE results,
                        IF hit THEN seen \cup {unique_key} ELSE seen)

search_symbol(instruments, query, exchange, limit) ==
    SearchFrom(instruments, Upper(query), exchange, limit, 1, <<>>, {})

\* ------------------------------------------------------ symbol_resolver.py
Digits == "0123456789"
WordChars == "ABCDEFGHIJKLMNOPQRSTUVWXYZ0123456789_abcdefghijklmnopqrstuvwxyz"

\* The characters of str from the i-th on.
From(str, i) == SubSeq(str, i, Len(str))

\* How many leading characters of str are in the alphabet.
RECURSIVE Leading(_, _)
Leading(str, alphabet) ==
    IF str = "" \/ ~Contains(alphabet, SubSeq(str, 1, 1)) THEN 0
    ELSE 1 + Leading(From(str, 2), alphabet)

\* str without its leading blanks (the \s* and \s+ of the patterns).
LStrip(str) == From(str, Leading(str, " ") + 1)

RECURSIVE RStrip(_)
RStrip(str) ==
    IF str # "" /\ SubSeq(str, Len(str), Len(str)) = " "
    THEN RStrip(SubSeq(str, 1, Len(str) - 1)) ELSE str

\* str.strip().
Strip(str) == RStrip(LStrip(str))

\* \w+ to the end of the string.
IsWord(str) == str # "" /\ Leading(str, WordChars) = Len(str)

StartsWith(str, prefix) ==
    Len(prefix) <= Len(str) /\ SubSeq(str, 1, Len(prefix)) = prefix

\* The value of a digit, and int() of a string of digits.
DigitValue(c) == CHOOSE d \in 0..9 : SubSeq(Digits, d + 1, d + 1) = c

RECURSIVE ToInt(_)
ToInt(digits) ==
    IF digits = "" THEN 0
    ELSE 10 * ToInt(SubSeq(digits, 1, Len(digits) - 1))
            + DigitValue(SubSeq(digits, Len(digits), Len(digits)))

\* str() of a natural number.
RECURSIVE Str(_)
Str(n) ==
    IF n < 10 THEN SubSeq(Digits, n + 1, n + 1)
    ELSE Str(n \div 10) \o SubSeq(Digits, (n % 10) + 1, (n % 10) + 1)

\* str.zfill(2).
ZFill2(str) == IF Len(str) < 2 THEN "0" \o str ELSE str

INDEX_OPTIONS ==
    [index \in {"NIFTY", "BANKNIFTY", "FINNIFTY", "MIDCPNIFTY", "SENSEX",
                "BANKEX"} |->
        IF index \in {"SENSEX", "BANKEX"} THEN "BFO" ELSE "NFO"]

MONTH_CODES ==
    <<"JAN", "FEB", "MAR", "APR", "MAY", "JUN", "JUL", "AUG", "SEP", "OCT",
      "NOV", "DEC">>

\* The aliases of STOCK_ALIASES the signals under study use.
ReverseAliases == [alias \in {"SBI", "STATE BANK"} |-> "SBIN"]

\* No match of a pattern.
NoMatch ==
    [matched |-> FALSE, symbol |-> "", strike |-> "", option_type |-> "",
     expiry_hint |-> NULL]

\* The option pattern after its first group: \s*(\d+)\s*(CE|PE|CALL|PUT)
\* and an optional \s+(\w+), to the end of the string. Strikes with a
\* decimal point are not among the signals under study.
OptionTail(symbol, rest) ==
    LET after_blanks == LStrip(rest)
        strike == SubSeq(after_blanks, 1, Leading(after_blanks, Digits))
        after_strike == LStrip(From(after_blanks, Len(strike) + 1))
        option_type ==
            IF StartsWith(after_strike, "CE") THEN "CE"
            ELSE IF StartsWith(after_strike, "PE") THEN "PE"
            ELSE IF StartsWith(after_strike, "CALL") THEN "CALL"
            ELSE IF StartsWith(after_strike, "PUT") THEN "PUT"
            ELSE ""
        tail == From(after_strike, Len(option_type) + 1)
    IN  IF strike = "" \/ option_type = "" THEN NoMatch
        ELSE IF tail = ""
        THEN [matched |-> TRUE, symbol |-> symbol, strike |-> strike,
              option_type |-> option_type, expiry_hint |-> NULL]
        ELSE IF StartsWith(tail, " ") /\ IsWord(LStrip(tail))
        THEN [matched |-> TRUE, symbol |-> symbol, strike |-> strike,
              option_type |-> option_type, expiry_hint |-> LStrip(tail)]
        ELSE NoMatch

\* re.match(option_pattern, raw_symbol): the first group is greedy, so it is
\* the longest run of word characters after which the rest still matches.
OptionMatch(raw_symbol) ==
    LET splits == {i \in 1..Leading(raw_symbol, WordChars) :
                      OptionTail(SubSeq(raw_symbol, 1, i),
                                 From(raw_symbol, i + 1)).matched}
        longest == CHOOSE i \in splits : \A j \in splits : j <= i
    IN  IF splits = {} THEN NoMatch
        ELSE OptionTail(SubSeq(raw_symbol, 1, longest),
                        From(raw_symbol, longest + 1))

\* re.match(future_pattern, raw_symbol): (\w+)\s+FUT(URE)? and an optional
\* \s+(\w+), to the end of the string.
FutureMatch(raw_symbol) ==
    LET word == Leading(raw_symbol, WordChars)
        symbol == SubSeq(raw_symbol, 1, word)
        rest == From(raw_symbol, word + 1)
        after_fut == From(LStrip(rest), 4)
        after_future == From(LStrip(rest), 7)
        Hinted(tail) == StartsWith(tail, " ") /\ IsWord(LStrip(tail))
        Matched(hint) ==
            [matched |-> TRUE, symbol |-> symbol, strike |-> "",
             option_type |-> "", expiry_hint |-> hint]
    IN  IF word = 0 \/ ~StartsWith(rest, " ") \/ ~StartsWith(LStrip(rest), "FUT")
        THEN NoMatch
        ELSE IF StartsWith(LStrip(rest), "FUTURE") /\ after_future = ""
        THEN Matched(NULL)
        ELSE IF StartsWith(LStrip(rest), "FUTURE") /\ Hinted(after_future)
        THEN Matched(LStrip(after_future))
        ELSE IF after_fut = "" THEN Matched(NULL)
        ELSE IF Hinted(after_fut) THEN Matched(LStrip(after_fut))
        ELSE NoMatch

\* The dict _parse_fno_symbol returns (kind "none": it returns None). Only
\* the option's dict has an "exchange" key.
FnoInfo(kind, symbol, strike, option_type, expiry_hint, exchange) ==
    [kind |-> kind, symbol |-> symbol, strike |-> strike,
     option_type |-> option_type, expiry_hint |-> expiry_hint,
     exchange |-> exchange]

\* What _parse_fno_symbol makes of the two matches.
ParsedFno(option, future) ==
        IF option.matched
        THEN FnoInfo("option", Upper(option.symbol), ToInt(option.strike),
                     CASE option.option_type = "CALL" -> "CE"
                       [] option.option_type = "PUT" -> "PE"
                       [] OTHER -> option.option_type,
                     IF option.expiry_hint = NULL THEN NULL
                     ELSE Upper(option.expiry_hint),
                     IF Upper(option.symbol) \in DOMAIN INDEX_OPTIONS
                     THEN INDEX_OPTIONS[Upper(option.symbol)] ELSE "NFO")
        ELSE IF future.matched
        THEN FnoInfo("future", Upper(future.symbol), 0, "",
                     IF future.expiry_hint = NULL THEN NULL
                     ELSE Upper(future.expiry_hint),
                     NULL)
        ELSE FnoInfo("none", "", 0, "", NULL, NULL)

parse_fno_symbol(raw_symbol) ==
    ParsedFno(OptionMatch(raw_symbol), FutureMatch(raw_symbol))

\* fno_info.get("exchange", "NFO").
TargetExchange(fno_info) ==
    IF fno_info.exchange = NULL THEN "NFO" ELSE fno_info.exchange

\* The date day_index days after Wednesday 29 January 2025, over the weeks
\* the clock of the model covers (weekday as datetime.weekday()).
Date(day_index) ==
    [day |-> IF day_index <= 2 THEN 29 + day_index ELSE day_index - 2,
     month |-> IF day_index <= 2 THEN 1 ELSE 2,
     year |-> 2025,
     weekday |-> (2 + day_index) % 7]

\* str(year)[2:].
YearShort(year) == From(Str(year), 3)

\* The month number of a hint that is a month code (0: it is none).
MonthOfHint(hint) ==
    IF hint = NULL \/ \A m \in DOMAIN MONTH_CODES : MONTH_CODES[m] # Upper(hint)
    THEN 0
    ELSE CHOOSE m \in DOMAIN MONTH_CODES : MONTH_CODES[m] = Upper(hint)

\* The year of a hinted month: next year when the month has passed.
YearOfHint(month_num, today) ==
    IF month_num < today.month THEN today.year + 1 ELSE today.year

get_weekly_expiry_string(hint, clock) ==
    LET today == Date(clock.day_index)
        month_num == MonthOfHint(hint)
        until == (3 - today.weekday) % 7
        days_until_thursday ==
            IF until = 0 /\ clock.hour >= 15 THEN 7 ELSE until
        next_expiry == Date(clock.day_index + days_until_thursday)
    IN  IF month_num # 0
        THEN "02" \o MONTH_CODES[month_num]
                  \o YearShort(YearOfHint(month_num, today))
        ELSE ZFill2(Str(next_expiry.day)) \o MONTH_CODES[next_expiry.month]
                  \o YearShort(next_expiry.year)

get_monthly_expiry_string(hint, clock) ==
    LET today == Date(clock.day_index)
        month_num == MonthOfHint(hint)
    IN  IF month_num # 0
        THEN YearShort(YearOfHint(month_num, today)) \o MONTH_CODES[month_num]
        ELSE YearShort(today.year) \o MONTH_CODES[today.month]

\* The order of the characters of instrument symbols, and str < str.
CharOrder == "-0123456789ABCDEFGHIJKLMNOPQRSTUVWXYZ_"

CharRank(c) == CHOOSE i \in 1..Len(CharOrder) : SubSeq(CharOrder, i, i) = c

RECURSIVE Less(_, _)
Less(a, b) ==
    IF b = "" THEN FALSE
    ELSE IF a = "" THEN TRUE
    ELSE IF SubSeq(a, 1, 1) = SubSeq(b, 1, 1) THEN Less(From(a, 2), From(b, 2))
    ELSE CharRank(SubSeq(a, 1, 1)) < CharRank(SubSeq(b, 1, 1))

\* list.sort(key=symbol): stable insertion into the sorted list.
RECURSIVE SortBySymbol(_)
SortBySymbol(results) ==
    IF results = <<>> THEN <<>>
    ELSE LET last == results[Len(results)]
             sorted == SortBySymbol(SubSeq(results, 1, Len(results) - 1))
             before == SelectSeq(sorted, LAMBDA r : ~Less(last.symbol, r.symbol))
             after == SelectSeq(sorted, LAMBDA r : Less(last.symbol, r.symbol))
         IN  before \o <<last>> \o after

search_fno_options(instruments, symbol, strike, option_type, expiry_hint, exchange) ==
    LET first == search_symbol(instruments, symbol \o strike \o option_type,
                               exchange, 20)
        results == IF first # <<>> THEN first
                   ELSE search_symbol(instruments, symbol, exchange, 50)
        matching == SortBySymbol(
                        SelectSeq(results,
                            LAMBDA r : /\ Contains(r.symbol, strike)
                                       /\ Contains(r.symbol, option_type)
                                       /\ Contains(r.symbol, symbol)))
        filtered == SelectSeq(matching,
                        LAMBDA m : Contains(Upper(m.symbol), Upper(expiry_hint)))
    IN  IF expiry_hint # NULL /\ filtered # <<>> THEN filtered ELSE matching

\* The dict resolve_symbol returns, with the underlying the parse found.
Resolution(success, original, underlying, resolved_symbol, token, exchange,
           instrument_type, message) ==
    [success |-> success, original |-> original, underlying |-> underlying,
     resolved_symbol |-> resolved_symbol, token |-> token,
     exchange |-> exchange, instrument_type |-> instrument_type,
     message |-> message]

\* "if token:" of Python for the tokens of the index.
Truthy(token) == token # NULL /\ token # ""

\* success of an equity no index entry confirms, and a variant that reports
\* the constructed symbol as a success.
UnconfirmedEquityAsSuccess == TRUE

UnconfirmedEquitySuccess == FALSE

resolve_fno_symbol(instruments, fno_info, original, clock) ==
    LET symbol == fno_info.symbol
        target_exchange == TargetExchange(fno_info)
        strike_str == Str(fno_info.strike)
        search_results ==
            search_fno_options(instruments, symbol, strike_str,
                               fno_info.option_type, fno_info.expiry_hint,
                               target_exchange)
        weekly == symbol \o get_weekly_expiry_string(fno_info.expiry_hint, clock)
                         \o strike_str \o fno_info.option_type
        monthly == symbol \o get_monthly_expiry_string(fno_info.expiry_hint, clock)
                          \o "FUT"
        token == GetToken(instruments, monthly, target_exchange)
        resolved == IF fno_info.kind = "option" THEN weekly ELSE monthly
    IN  IF fno_info.kind = "option" /\ search_results # <<>>
        THEN Resolution(TRUE, original, symbol, search_results[1].symbol,
                        search_results[1].token, search_results[1].exchange,
                        "OPTION",
                        "Found match: " \o search_results[1].symbol)
        ELSE IF fno_info.kind = "future" /\ Truthy(token)
        THEN Resolution(TRUE, original, symbol, monthly, token,
                        target_exchange, "FUTURE", "Resolved to " \o monthly)
        ELSE Resolution(TRUE, original, symbol, resolved, NULL,
                        target_exchange,
                        IF fno_info.kind = "option" THEN "OPTION" ELSE "FUTURE",
                        "Constructed symbol (unvalidated): " \o resolved)

resolve_equity_symbol(instruments, raw_symbol, exchange) ==
    LET canonical == IF raw_symbol \in DOMAIN ReverseAliases
                     THEN ReverseAliases[raw_symbol] ELSE raw_symbol
        candidates ==
            IF exchange = "NSE"
            THEN <<canonical \o "-EQ", canonical, raw_symbol \o "-EQ",
                   raw_symbol>>
            ELSE <<canonical, raw_symbol>>
        found == SelectSeq(candidates,
                     LAMBDA c : Truthy(GetToken(instruments, c, exchange)))
        results == search_symbol(instruments, canonical, exchange, 10)
        preferred ==
            SelectSeq(results,
                LAMBDA r : \/ Upper(r.name) = canonical
                           \/ Upper(r.symbol) = canonical \o "-EQ")
        best == IF preferred # <<>> THEN preferred[1] ELSE results[1]
        resolved == IF exchange = "NSE" THEN canonical \o "-EQ" ELSE canonical
    IN  IF found # <<>>
        THEN Resolution(TRUE, raw_symbol, NULL, found[1],
                        GetToken(instruments, found[1], exchange), exchange,
                        "EQUITY", "Resolved to " \o found[1])
        ELSE IF results # <<>>
        THEN Resolution(TRUE, raw_symbol, NULL, best.symbol, best.token,
                        best.exchange, "EQUITY",
                        (IF preferred # <<>> THEN "Found match: "
                         ELSE "Best match: ") \o best.symbol)
        ELSE Resolution(UnconfirmedEquitySuccess, raw_symbol, NULL, resolved,
                        NULL, exchange, "EQUITY",
                        "Could not validate symbol: " \o resolved)

\* resolve_symbol on the index as it is, at the time of the clock.
\* (ResolveSymbol is the function, resolve_symbol the call.)
ResolveParsed(instruments, upper, fno_result, exchange, clock) ==
    IF fno_result.kind # "none"
    THEN resolve_fno_symbol(instruments, fno_result, upper, clock)
    ELSE resolve_equity_symbol(instruments, upper, exchange)

ResolveUpper(instruments, upper, exchange, clock) ==
    ResolveParsed(instruments, upper, parse_fno_symbol(upper), exchange, clock)

ResolveSymbol(instruments, raw_symbol, exchange, clock) ==
    ResolveUpper(instruments, Upper(Strip(raw_symbol)), exchange, clock)

\* ------------------------------------------------- the brokerage (Angel One)
\* What place_order returns to a logged-in caller: "success" with a new order
\* id, or an error message.
PlaceResults == {"success"} \cup PlaceErrors

\* The vendor status of an order the brokerage has just accepted, as the
\* first look at the order book finds it.
NewOrderStatuses == VendorStatuses

\* get_order_status(order_id) of broker_service: the order's vendor status, or
\* "error" (not logged in, order book not fetched, order not in the book).
OrderStatusResults(order_id) ==
    IF legacy_logged_in /\ order_id \in DOMAIN book
    THEN {book[order_id], "error"}
    ELSE {"error"}

\* get_all_order_statuses() of broker_service: "success" (the book), or "error".
OrderBookResults ==
    IF legacy_logged_in THEN {"success", "error"} ELSE {"error"}

\* The status-update branch shared by the post-submission check
\* (trades.py 301-319): the trade after a successful status check.
ApplyStatusCheck(trade, vendor) ==
    LET internal_status == InternalStatus(vendor)
        t1 == [trade EXCEPT !.broker_status = vendor]
    IN  IF internal_status = "EXECUTED" THEN [t1 EXCEPT !.status = "EXECUTED"]
        ELSE IF internal_status = "REJECTED"
        THEN [t1 EXCEPT !.status = "REJECTED",
                        !.broker_rejection_reason = RejectionReason(vendor),
                        !.error_message = RejectionReason(vendor)]
        ELSE IF internal_status = "CANCELLED"
        THEN [t1 EXCEPT !.status = "CANCELLED"]
        ELSE [t1 EXCEPT !.status = "OPEN"]

\* ----------------------------------------------------- app/api/trades.py
\* A submission that forgets to record the order id.
SubmittedWithoutOrderId(trade, order_id) ==
    [trade EXCEPT !.status = "SUBMITTED"]

\* The row after place_order (or place_bracket_order) answered "success" with
\* order_id (trades.py 291-293, 401-402).
Submitted(trade, order_id) ==
    [trade EXCEPT !.order_id = order_id, !.status = "SUBMITTED"]

\* A failure that keeps the old error_message.
PlaceFailedWithoutMessage(trade, message) ==
    [trade EXCEPT !.status = "FAILED"]

\* The row after place_order answered {status: error, message}
\* (trades.py 333-335, auto_trade_service.py 341-343, telegram.py 468-470).
PlaceFailed(trade, message) ==
    [trade EXCEPT !.status = "FAILED", !.error_message = message]

\* A lookup that takes an order the book does not list for a cancelled one.
broker_orders_get_or_cancelled(order_id) ==
    IF order_id \in DOMAIN book THEN book[order_id] ELSE "cancelled"

\* broker_orders.get(str(trade.order_id)) of the two sweeps: the order's vendor
\* status, or NULL for an order the book does not list.
broker_orders_get(order_id) ==
    IF order_id \in DOMAIN book THEN book[order_id] ELSE NULL

\* The row after the "Symbol Resolution" block (trades.py 254-276): a
\* successful resolution rewrites symbol and exchange where they differ and
\* says so in notes; a failed one is logged and leaves the row as it is.
ApplyResolution(trade, resolution_result) ==
    IF resolution_result.success
    THEN LET resolved_symbol == resolution_result.resolved_symbol
             resolved_exchange == resolution_result.exchange
             t1 == IF resolved_symbol # trade.symbol
                   THEN [trade EXCEPT
                            !.notes = "Symbol resolved: " \o trade.symbol
                                      \o " → " \o resolved_symbol,
                            !.symbol = resolved_symbol]
                   ELSE trade
         IN  IF resolved_exchange # t1.exchange
             THEN [t1 EXCEPT
                      !.notes = (IF t1.notes \in {NULL, ""} THEN "" ELSE t1.notes)
                                \o " (exchange: " \o t1.exchange
                                \o " → " \o resolved_exchange \o ")",
                      !.exchange = resolved_exchange]
             ELSE t1
    ELSE trade

\* The resolution of a new row's symbol against an index with nothing in it,
\* worked out once.
ResolvedBefore ==
    ResolveSymbol(EmptyDict, "SBIN", "NSE", StartOfClock)

\* resolver.resolve_symbol(raw_symbol=trade.symbol, exchange=trade.exchange)
\* on the index of symbol_master as it is.
ResolutionOf(trade) ==
    IF /\ trade.symbol = "SBIN"
       /\ trade.exchange = "NSE"
       /\ symbol_master.instruments = EmptyDict
       /\ now = StartOfClock
    THEN ResolvedBefore
    ELSE ResolveSymbol(symbol_master.instruments, trade.symbol,
                       trade.exchange, now)

\* execute_trade_internal for an existing row. tr is the store as the caller
\* left it (create_trade has just added the row). Every execution may rewrite
\* the symbol into a longer one: the rows studied have symbols of at most
\* MaxSymbolLen characters.
execute_trade_internal(op, trade_id, tr) ==
    /\ Len(tr[trade_id].symbol) <= MaxSymbolLen
    /\ UNCHANGED <<settings, active_logged_in, paper_trades>>
    /\ IF ~legacy_logged_in
       THEN /\ trades' = [tr EXCEPT ![trade_id].status = "FAILED",
                                    ![trade_id].error_message = NotLoggedInDetail]
            /\ lastOp' = Op(op, trade_id, 400, NotLoggedInDetail, "none")
            /\ UNCHANGED <<legacy_logged_in, book, placed>>
       ELSE \E trade \in {ApplyResolution(tr[trade_id], ResolutionOf(tr[trade_id]))},
               result \in PlaceResults :
            IF result = "success"
            THEN /\ placed < MaxOrders
                 /\ placed' = placed + 1
                 /\ \E vendor \in NewOrderStatuses :
                        book' = book @@ (OrderId(placed + 1) :> vendor)
                 /\ \E order_status \in {book'[OrderId(placed + 1)], "error"} :
                    LET submitted == Submitted(trade, OrderId(placed + 1))
                    IN  trades' = [tr EXCEPT ![trade_id] =
                                     IF order_status = "error" THEN submitted
                                     ELSE ApplyStatusCheck(submitted, order_status)]
                 /\ lastOp' = Op(op, trade_id, 200, NULL, "success")
                 /\ UNCHANGED legacy_logged_in
            ELSE /\ trades' = [tr EXCEPT ![trade_id] =
                                         PlaceFailed(trade, result)]
                 /\ legacy_logged_in' = (result # SessionExpired)
                 /\ lastOp' = Op(op, trade_id, 200, NULL, result)
                 /\ UNCHANGED <<book, placed>>

\* The row create_trade stores for a request (trades.py 65-100): symbol and
\* exchange as a successful resolution gives them, and a note of the change.
CreatedFrom(request, resolution_result) ==
    IF resolution_result.success /\ resolution_result.resolved_symbol # ""
    THEN [request EXCEPT
             !.symbol = resolution_result.resolved_symbol,
             !.exchange = resolution_result.exchange,
             !.notes =
                 IF resolution_result.resolved_symbol = request.symbol THEN NULL
                 ELSE "Symbol resolved: " \o request.symbol \o " → "
                      \o resolution_result.resolved_symbol
                      \o (IF resolution_result.exchange # request.exchange
                          THEN " (exchange: " \o resolution_result.exchange \o ")"
                          ELSE "")]
    ELSE request

CreatedTrade(prices) ==
    CreatedFrom(NewTrade(prices), ResolutionOf(NewTrade(prices)))

create_trade ==
    /\ lastOp = Idle
    /\ UNCHANGED ext_vars
    /\ \E prices \in PriceInputs :
           IF ~TradeLimitAllowed
           THEN /\ lastOp' = Op("create_trade", 0, 429, LimitDetail, "none")
                /\ UNCHANGED <<settings, trades, legacy_logged_in, active_logged_in,
                               book, placed, paper_trades>>
           ELSE /\ Len(trades) < MaxTrades
                /\ \E tr \in {Append(trades, CreatedTrade(prices))} :
                       IF AutoExecute
                       THEN execute_trade_internal("create_trade", Len(tr), tr)
                       ELSE /\ trades' = tr
                            /\ lastOp' = Op("create_trade", Len(tr), 200, NULL, "none")
                            /\ UNCHANGED <<settings, legacy_logged_in, active_logged_in,
                                           book, placed, paper_trades>>

\* approve_trade without its check of the status.
approve_any_trade ==
    /\ lastOp = Idle
    /\ UNCHANGED ext_vars
    /\ \E trade_id \in TradeIds, approved \in BOOLEAN :
           LET op == IF approved THEN "approve_trade(approved=True)"
                     ELSE "approve_trade(approved=False)"
           IN
           IF approved
           THEN execute_trade_internal(op, trade_id, trades)
           ELSE /\ trades' = [trades EXCEPT ![trade_id].status = "REJECTED",
                                            ![trade_id].notes = NULL]
                /\ lastOp' = Op(op, trade_id, 200, NULL, "none")
                /\ UNCHANGED <<settings, legacy_logged_in, active_logged_in,
                               book, placed, paper_trades>>

\* approve_trade, with the notes of the request left out (None): a rejection
\* stores them, an approval stores only notes that are given.
approve_trade ==
    /\ lastOp = Idle
    /\ UNCHANGED ext_vars
    /\ \E trade_id \in TradeIds, approved \in BOOLEAN :
           LET op == IF approved THEN "approve_trade(approved=True)"
                     ELSE "approve_trade(approved=False)"
           IN
           IF trades[trade_id].status # "PENDING"
           THEN /\ lastOp' = Op(op, trade_id, 400, NotPendingDetail, "none")
                /\ UNCHANGED <<settings, trades, legacy_logged_in, active_logged_in,
                               book, placed, paper_trades>>
           ELSE IF approved
           THEN execute_trade_internal(op, trade_id, trades)
           ELSE /\ trades' = [trades EXCEPT ![trade_id].status = "REJECTED",
                                            ![trade_id].notes = NULL]
                /\ lastOp' = Op(op, trade_id, 200, NULL, "none")
                /\ UNCHANGED <<settings, legacy_logged_in, active_logged_in,
                               book, placed, paper_trades>>

execute_trade ==
    /\ lastOp = Idle
    /\ UNCHANGED ext_vars
    /\ \E trade_id \in TradeIds :
           execute_trade_internal("execute_trade", trade_id, trades)

\* execute_bracket_order. place_bracket_order answers "success" with an order
\* id, an error message, or nothing at all ("raise": AngelOneBrokerService,
\* the class of broker_service, defines no place_bracket_order, so the call
\* fails before the handler changes the trade, and nothing is committed).
BracketResults == {"success", "raise"} \cup BracketErrors

execute_bracket_order ==
    /\ lastOp = Idle
    /\ UNCHANGED ext_vars
    /\ \E trade_id \in TradeIds :
           LET Reply(code, detail) ==
                   /\ lastOp' = Op("execute_bracket_order", trade_id, code, detail, "none")
                   /\ UNCHANGED <<trades, book, placed>>
           IN
           /\ UNCHANGED <<settings, legacy_logged_in, active_logged_in,
                          paper_trades>>
           /\ IF trades[trade_id].entry_price = 0
              THEN Reply(400, "Entry price is required for bracket orders")
              ELSE IF trades[trade_id].target_price = 0
              THEN Reply(400, "Target price is required for bracket orders")
              ELSE IF trades[trade_id].stop_loss = 0
              THEN Reply(400, "Stop loss is required for bracket orders")
              ELSE IF ~legacy_logged_in
              THEN /\ trades' = [trades EXCEPT
                                    ![trade_id].status = "FAILED",
                                    ![trade_id].error_message = NotLoggedInDetail]
                   /\ lastOp' = Op("execute_bracket_order", trade_id, 400,
                                    NotLoggedInDetail, "none")
                   /\ UNCHANGED <<book, placed>>
              ELSE \E result \in BracketResults :
                   IF result = "success"
                   THEN /\ placed < MaxOrders
                        /\ placed' = placed + 1
                        /\ \E vendor \in NewOrderStatuses :
                               book' = book @@ (OrderId(placed + 1) :> vendor)
                        /\ trades' = [trades EXCEPT ![trade_id] =
                                         Submitted(trades[trade_id], OrderId(placed + 1))]
                        /\ lastOp' = Op("execute_bracket_order", trade_id, 200, NULL, "success")
                   ELSE IF result = "raise"
                   THEN /\ lastOp' = Op("execute_bracket_order", trade_id, 500, NULL, "raise")
                        /\ UNCHANGED <<trades, book, placed>>
                   ELSE /\ trades' = [trades EXCEPT
                                         ![trade_id].status = "FAILED",
                                         ![trade_id].error_message = result]
                        /\ lastOp' = Op("execute_bracket_order", trade_id, 200, NULL, result)
                        /\ UNCHANGED <<book, placed>>

\* The rows of a sweep's selection whose order the book lists: the rows the
\* loop writes to, and so the rows whose update can raise (in the loop body,
\* or when the one commit of the sweep flushes the row).
SyncTouched(selection) ==
    {t \in selection : broker_orders_get(trades[t].order_id) # NULL}

\* The reply to a request whose handler raised: the session is closed without
\* a commit (get_db), and the framework answers 500.
UpdateError == "Internal Server Error"

\* What the periodic task logs for an exception of its round (main.py 118-119).
SyncErrorLog == "Error in order sync"

\* The per-trade body of the manual sweep (trades.py 501-525).
ManualSyncTrade(trade) ==
    IF broker_orders_get(trade.order_id) = NULL THEN trade
    ELSE
    LET vendor == broker_orders_get(trade.order_id)
        internal_status == InternalStatus(vendor)
        t1 == [trade EXCEPT !.broker_status = vendor]
    IN  IF internal_status = "EXECUTED" /\ trade.status # "EXECUTED"
        THEN [t1 EXCEPT !.status = "EXECUTED"]
        ELSE IF internal_status = "REJECTED" /\ trade.status # "REJECTED"
        THEN [t1 EXCEPT !.status = "REJECTED",
                        !.broker_rejection_reason = RejectionReason(vendor),
                        !.error_message = RejectionReason(vendor)]
        ELSE IF internal_status = "CANCELLED" /\ trade.status # "CANCELLED"
        THEN [t1 EXCEPT !.status = "CANCELLED"]
        ELSE IF internal_status = "OPEN" /\ trade.status \notin Terminal
        THEN [t1 EXCEPT !.status = "OPEN"]
        ELSE t1

\* The rows the manual sweep selects.
ManualSyncSelection ==
    {t \in TradeIds : /\ trades[t].order_id # NULL
                      /\ trades[t].status \in {"SUBMITTED", "OPEN", "PENDING", "EXECUTED"}}

sync_all_order_statuses ==
    /\ lastOp = Idle
    /\ UNCHANGED ext_vars
    /\ LET Reply(code, detail) ==
               lastOp' = Op("sync_all_order_statuses", 0, code, detail, "none")
       IN
       /\ UNCHANGED <<settings, legacy_logged_in, active_logged_in, book, placed,
                      paper_trades>>
       /\ IF ~legacy_logged_in
          THEN Reply(400, NotLoggedInDetail) /\ UNCHANGED trades
          ELSE IF ManualSyncSelection = {}
          THEN Reply(200, "No trades to sync") /\ UNCHANGED trades
          ELSE \E order_book \in OrderBookResults :
               IF order_book # "success"
               THEN Reply(500, "Failed to fetch orders") /\ UNCHANGED trades
               ELSE \E raising \in {0} \cup SyncTouched(ManualSyncSelection) :
                    IF raising # 0
                    THEN Reply(500, UpdateError) /\ UNCHANGED trades
                    ELSE /\ trades' = [t \in TradeIds |->
                                         IF t \in ManualSyncSelection
                                         THEN ManualSyncTrade(trades[t]) ELSE trades[t]]
                         /\ Reply(200, "Synced")

refresh_trade_status ==
    /\ lastOp = Idle
    /\ UNCHANGED ext_vars
    /\ \E trade_id \in TradeIds :
           LET Reply(code, detail) ==
                   lastOp' = Op("refresh_trade_status", trade_id, code, detail, "none")
           IN
           /\ UNCHANGED <<settings, legacy_logged_in, active_logged_in, book, placed,
                          paper_trades>>
           /\ IF trades[trade_id].order_id = NULL
              THEN Reply(400, "Trade has no broker order ID") /\ UNCHANGED trades
              ELSE IF ~legacy_logged_in
              THEN Reply(400, NotLoggedInDetail) /\ UNCHANGED trades
              ELSE \E order_status \in OrderStatusResults(trades[trade_id].order_id) :
                   IF order_status = "error"
                   THEN Reply(500, "Failed to fetch order status") /\ UNCHANGED trades
                   ELSE LET trade == trades[trade_id]
                            internal_status == InternalStatus(order_status)
                            t1 == [trade EXCEPT !.broker_status = order_status]
                            t2 == IF internal_status = "EXECUTED"
                                  THEN [t1 EXCEPT !.status = "EXECUTED"]
                                  ELSE IF internal_status = "REJECTED"
                                  THEN [t1 EXCEPT
                                          !.status = "REJECTED",
                                          !.broker_rejection_reason = RejectionReason(order_status),
                                          !.error_message = RejectionReason(order_status)]
                                  ELSE IF internal_status = "CANCELLED"
                                  THEN [t1 EXCEPT !.status = "CANCELLED"]
                                  ELSE IF internal_status = "OPEN"
                                  THEN [t1 EXCEPT !.status = "OPEN"]
                                  ELSE t1
                        IN  /\ trades' = [trades EXCEPT ![trade_id] = t2]
                            /\ Reply(200, NULL)

\* ------------------------------------------------------------- main.py
\* The per-trade body of the periodic sweep (main.py 73-95).
PeriodicSyncTrade(trade) ==
    IF broker_orders_get(trade.order_id) = NULL THEN trade
    ELSE
    LET vendor == broker_orders_get(trade.order_id)
        internal_status == InternalStatus(vendor)
        t1 == [trade EXCEPT !.broker_status = vendor]
    IN  IF internal_status = "EXECUTED" /\ trade.status # "EXECUTED"
        THEN [t1 EXCEPT !.status = "EXECUTED"]
        ELSE IF internal_status = "REJECTED" /\ trade.status # "REJECTED"
        THEN [t1 EXCEPT !.status = "REJECTED",
                        !.broker_rejection_reason = RejectionReason(vendor),
                        !.error_message = RejectionReason(vendor)]
        ELSE IF internal_status = "CANCELLED" /\ trade.status # "CANCELLED"
        THEN [t1 EXCEPT !.status = "CANCELLED"]
        ELSE t1

\* The rows the periodic sweep may select: the query has no ORDER BY, so any
\* SyncBatchLimit of the candidates.
PeriodicSyncCandidates ==
    {t \in TradeIds : /\ trades[t].order_id # NULL
                      /\ trades[t].status \in {"SUBMITTED", "OPEN", "PENDING"}}

\* The ways to leave n rows of a set of rows out.
RECURSIVE Leaving(_, _)
Leaving(rows, n) ==
    IF n = 0 THEN {{}}
    ELSE UNION {{left \cup {t} : left \in Leaving(rows \ {t}, n - 1)} : t \in rows}

PeriodicSyncSelections ==
    IF Cardinality(PeriodicSyncCandidates) <= SyncBatchLimit
    THEN {PeriodicSyncCandidates}
    ELSE {PeriodicSyncCandidates \ left :
            left \in Leaving(PeriodicSyncCandidates,
                             Cardinality(PeriodicSyncCandidates) - SyncBatchLimit)}

\* One round of the loop of periodic_order_status_sync, after its sleep(15).
periodic_order_status_sync ==
    /\ lastOp = Idle
    /\ order_sync_task = "running"
    /\ UNCHANGED ext_vars
    /\ LET Round(log) == lastOp' = Op("periodic_order_status_sync", 0, 0, log, "none")
       IN
       /\ UNCHANGED <<settings, legacy_logged_in, active_logged_in, book, placed,
                      paper_trades>>
       /\ IF ~legacy_logged_in
          THEN Round("not logged in") /\ UNCHANGED trades
          ELSE IF PeriodicSyncCandidates = {}
          THEN Round("No trades to sync") /\ UNCHANGED trades
          ELSE \E trades_to_sync \in PeriodicSyncSelections :
               \E order_book \in OrderBookResults :
               IF order_book # "success"
               THEN Round("Failed to fetch orders") /\ UNCHANGED trades
               ELSE \E raising \in {0} \cup SyncTouched(trades_to_sync) :
                    IF raising # 0
                    THEN Round(SyncErrorLog) /\ UNCHANGED trades
                    ELSE
                    LET synced == [t \in TradeIds |->
                                     IF t \in trades_to_sync
                                     THEN PeriodicSyncTrade(trades[t]) ELSE trades[t]]
                        updates == {t \in trades_to_sync :
                                       synced[t].status # trades[t].status}
                    IN  /\ trades' = IF updates # {} THEN synced ELSE trades
                        /\ Round("Synced")

\* ------------------------------------- app/services/auto_trade_service.py
PaperErrors == {"Insufficient balance"}
PaperResults == {"success"} \cup PaperErrors

\* Prices of a parsed signal: <<entry_price, target_price, stop_loss>>.
SignalPrices == { <<100, 110, 90>>, <<100, 0, 90>> }

\* The entry price of a parsed signal (0: the signal states none), and the
\* exchange it names (the default is NSE).
EntryPrices == {0, 100, 102, 103, 201}
Exchanges == {"NSE", "BSE"}

\* The signals of the channel: NSE signals at the live price.
ChannelSignals ==
    {Signal(has_fields, "NSE", found_on, 100, target_price, ltp_result) :
        has_fields \in BOOLEAN, found_on \in {{}, {"NSE"}},
        target_price \in {110, 0},
        ltp_result \in {LtpError, [status |-> "success", ltp |-> 100]}}

\* Every signal, for the study of the gate.
GateSignals ==
    {Signal(has_fields, exchange, found_on, entry_price, 110, ltp_result) :
        has_fields \in BOOLEAN, exchange \in Exchanges,
        found_on \in SUBSET Exchanges, entry_price \in EntryPrices,
        ltp_result \in LtpResults}

Abs(x) == IF x < 0 THEN -x ELSE x

\* A gate that asks for the manual approval before it looks at the switch.
SettingsRefusalApprovalFirst ==
    IF ~settings.exists THEN "No app settings configured"
    ELSE IF settings.require_manual_approval THEN "Manual approval required"
    ELSE IF ~settings.auto_trade_enabled THEN "Auto-trade is disabled"
    ELSE IF Len(trades) >= settings.max_trades_per_day THEN LimitDetail
    ELSE "pass"

\* Step 1 of process_signal (86-111): the refusal the settings and the day's
\* trade count give, or "pass". Every row of the model was created today.
SettingsRefusal ==
    IF ~settings.exists THEN "No app settings configured"
    ELSE IF ~settings.auto_trade_enabled THEN "Auto-trade is disabled"
    ELSE IF settings.require_manual_approval THEN "Manual approval required"
    ELSE IF Len(trades) >= settings.max_trades_per_day THEN LimitDetail
    ELSE "pass"

\* The type of the broker get_active_broker returns for a settings row (NULL:
\* it returns None): no type is configured, or the type is not registered.
ActiveBrokerType ==
    IF settings.active_broker_type = NULL THEN NULL
    ELSE IF settings.active_broker_type \notin Registered THEN NULL
    ELSE settings.active_broker_type

\* Step 2 of process_signal (115-143): the refusal for the active broker.
BrokerRefusal ==
    IF ActiveBrokerType = NULL THEN "No active broker configured"
    ELSE IF ~active_logged_in /\ ~settings.paper_trading_enabled
    THEN NotLoggedInDetail
    ELSE "pass"

\* A check that takes every instrument for found.
InstrumentFoundAnywhere(exchange, found_on) == TRUE

\* Step 4 of process_signal (155-168) with verify_instrument: search_symbols
\* finds the symbol on the stated exchange, or on BSE when NSE was stated.
\* found_on: the exchanges where search_symbols finds it.
InstrumentFound(exchange, found_on) ==
    \/ exchange \in found_on
    \/ exchange = "NSE" /\ "BSE" \in found_on

DeviationDetail == "Price deviation exceeds tolerance"

\* The reason when the check raised: ltp_result.get(...) on a value that is
\* not a dict is an AttributeError, which the check catches (488-493).
PriceCheckError == "Price check error"

\* current_price of the check (441-449): data is looked up with a default of
\* {}, and the price is data's "ltp" (0: None; the dict answers of the
\* backends carry no "last_price" or "close", and none has a number as data).
CurrentPrice(ltp_result) ==
    IF ltp_result.has_data THEN ltp_result.data_ltp ELSE 0

\* A check that refuses a deviation equal to the tolerance as well.
check_price_availability_inclusive(signal_price, ltp_result, tolerance_percent) ==
    IF ltp_result.kind # "dict" THEN PriceCheckError
    ELSE IF ltp_result.status # "success" /\ ~ltp_result.has_data
    THEN "Could not fetch current price"
    ELSE IF CurrentPrice(ltp_result) = 0 THEN "LTP not available in response"
    ELSE IF signal_price = 0 THEN "available"
    ELSE IF Abs(signal_price - CurrentPrice(ltp_result)) * 100
              >= tolerance_percent * CurrentPrice(ltp_result)
    THEN DeviationDetail
    ELSE "available"

\* check_price_availability: "available", or the reason it is not.
\* deviation_percent = abs(signal_price - current_price) / current_price * 100
\* is compared with the tolerance; with current_price > 0 that is
\* abs(signal_price - current_price) * 100 > tolerance_percent * current_price.
check_price_availability(signal_price, ltp_result, tolerance_percent) ==
    IF ltp_result.kind # "dict" THEN PriceCheckError
    ELSE IF ltp_result.status # "success" /\ ~ltp_result.has_data
    THEN "Could not fetch current price"
    ELSE IF CurrentPrice(ltp_result) = 0 THEN "LTP not available in response"
    ELSE IF signal_price = 0 THEN "available"
    ELSE IF Abs(signal_price - CurrentPrice(ltp_result)) * 100
              > tolerance_percent * CurrentPrice(ltp_result)
    THEN DeviationDetail
    ELSE "available"

\* broker.get_ltp(symbol, exchange) of the check (434), on the active broker,
\* for the quote the vendor answers.
GateLtp(ltp_result) ==
    IF ActiveBrokerType = "zerodha" THEN Zerodha_get_ltp(active_logged_in, ltp_result)
    ELSE IF ActiveBrokerType = "shoonya" THEN Shoonya_get_ltp(active_logged_in, ltp_result)
    ELSE AngelOne_get_ltp(active_logged_in, ltp_result)

\* The refusal of the gate before a trade row is created, or "pass".
\* has_fields: the signal names a symbol and an action.
GateReason(has_fields, exchange, found_on, signal_price, ltp_result) ==
    IF SettingsRefusal # "pass" THEN SettingsRefusal
    ELSE IF BrokerRefusal # "pass" THEN BrokerRefusal
    ELSE IF ~has_fields THEN "Invalid signal - missing symbol or action"
    ELSE IF ~InstrumentFound(exchange, found_on) THEN "Instrument not found"
    ELSE LET price_check == check_price_availability(signal_price,
                                GateLtp(ltp_result),
                                settings.price_tolerance_percent)
         IN  IF price_check # "available" THEN price_check ELSE "pass"

\* An order that is pinned to the live price.
OrderParametersAtLivePrice(signal_price, current_price) ==
    IF /\ signal_price # 0
       /\ current_price # 0
       /\ Abs(signal_price - current_price) * 1000 > LimitOrderPerMille * current_price
    THEN [order_type |-> "LIMIT", price |-> current_price]
    ELSE [order_type |-> "MARKET", price |-> 0]

\* Step 6 of process_signal (204-212): MARKET without a price, or LIMIT at the
\* signal's price when it is more than 0.5 percent away from the live price.
OrderParameters(signal_price, current_price) ==
    IF /\ signal_price # 0
       /\ current_price # 0
       /\ Abs(signal_price - current_price) * 1000 > LimitOrderPerMille * current_price
    THEN [order_type |-> "LIMIT", price |-> signal_price]
    ELSE [order_type |-> "MARKET", price |-> 0]

\* A venue that is the broker whatever the settings say.
AlwaysBroker == "broker"

\* Step 8 of process_signal (239-240, 288-290): the paper trading service
\* when paper_trading_enabled is set, else the active broker.
OrderVenue == IF settings.paper_trading_enabled THEN "paper" ELSE "broker"

process_signal ==
    /\ lastOp = Idle
    /\ UNCHANGED <<order_sync_task, signal, registry_vars, backend_vars, index_vars, resolver_vars, broker_config>>
    /\ \E sig \in (IF signal = NoSignal THEN ChannelSignals ELSE {signal}) :
           LET signal_price == sig.entry_price
               reason == GateReason(sig.has_fields, sig.exchange, sig.found_on,
                                    signal_price, sig.ltp_result)
               current_price == CurrentPrice(GateLtp(sig.ltp_result))
               params == OrderParameters(signal_price, current_price)
               entry_price == IF signal_price # 0 THEN signal_price
                              ELSE current_price
               tr == Append(trades,
                            NewTrade(<<entry_price, sig.target_price, 90>>))
               id == Len(tr)
               Order(venue, order_type, price) ==
                   auto_order' = AutoOrder(venue, order_type, price)
           IN
           /\ UNCHANGED <<settings, legacy_logged_in>>
           /\ IF reason # "pass"
              THEN /\ lastOp' = Op("process_signal", 0, 0, reason, "none")
                   /\ Order("none", NULL, 0)
                   /\ UNCHANGED <<trades, active_logged_in, book, placed, paper_trades>>
              ELSE
              /\ Len(trades) < MaxTrades
              /\ IF OrderVenue = "paper"
                 THEN \E paper_result \in PaperResults :
                      /\ UNCHANGED <<active_logged_in, book, placed>>
                      /\ Order("paper", NULL, current_price)
                      /\ IF paper_result = "success"
                         THEN /\ paper_trades' = paper_trades + 1
                              /\ trades' = [tr EXCEPT
                                     ![id].status = "EXECUTED",
                                     ![id].order_id = PaperOrderId(paper_trades + 1)]
                              /\ lastOp' = Op("process_signal", id, 0, "executed", "success")
                         ELSE /\ trades' = [tr EXCEPT
                                     ![id].status = "FAILED",
                                     ![id].error_message = paper_result]
                              /\ lastOp' = Op("process_signal", id, 0, "failed", paper_result)
                              /\ UNCHANGED paper_trades
                 ELSE \E order_result \in PlaceResults :
                      /\ UNCHANGED paper_trades
                      /\ Order("broker", params.order_type, params.price)
                      /\ IF order_result = "success"
                         THEN /\ placed < MaxOrders
                              /\ placed' = placed + 1
                              /\ \E vendor \in NewOrderStatuses :
                                     book' = book @@ (OrderId(placed + 1) :> vendor)
                              /\ trades' = [tr EXCEPT
                                     ![id].status = "EXECUTED",
                                     ![id].order_id = OrderId(placed + 1)]
                              /\ lastOp' = Op("process_signal", id, 0, "executed", "success")
                              /\ UNCHANGED active_logged_in
                         ELSE /\ trades' = [tr EXCEPT ![id] =
                                     PlaceFailed(tr[id], order_result)]
                              /\ active_logged_in' = (order_result # SessionExpired)
                              /\ lastOp' = Op("process_signal", id, 0, "failed", order_result)
                              /\ UNCHANGED <<book, placed>>

\* ---------------------------------------------------- app/api/telegram.py
\* The tail shared by execute_trade_from_message (430-469) and
\* simulate_telegram_trade (659-688): place the order for the row just created
\* and record the outcome.
PlaceForNewTrade(tr, op) ==
    \E result \in PlaceResults :
        IF result = "success"
        THEN /\ placed < MaxOrders
             /\ placed' = placed + 1
             /\ \E vendor \in NewOrderStatuses :
                    book' = book @@ (OrderId(placed + 1) :> vendor)
             /\ trades' = [tr EXCEPT ![Len(tr)].status = "EXECUTED",
                                     ![Len(tr)].order_id = OrderId(placed + 1)]
             /\ lastOp' = Op(op, Len(tr), 200, "executed", "success")
             /\ UNCHANGED legacy_logged_in
        ELSE /\ trades' = [tr EXCEPT ![Len(tr)] =
                                     PlaceFailed(tr[Len(tr)], result)]
             /\ legacy_logged_in' = (result # SessionExpired)
             /\ lastOp' = Op(op, Len(tr), 200, "failed", result)
             /\ UNCHANGED <<book, placed>>

\* execute_trade_from_message, for a stored message that holds a parsed signal.
execute_trade_from_message ==
    /\ lastOp = Idle
    /\ UNCHANGED ext_vars
    /\ \E prices \in PriceInputs :
           LET tr == Append(trades, NewTrade(prices))
           IN
           /\ UNCHANGED <<settings, active_logged_in, paper_trades>>
           /\ IF settings.exists /\ Len(trades) >= settings.max_trades_per_day
              THEN /\ lastOp' = Op("execute_trade_from_message", 0, 429,
                                    LimitDetail, "none")
                   /\ UNCHANGED <<trades, legacy_logged_in, book, placed>>
              ELSE
              /\ Len(trades) < MaxTrades
              /\ IF ~legacy_logged_in
                 THEN /\ trades' = tr
                      /\ lastOp' = Op("execute_trade_from_message", Len(tr), 200, "pending", "none")
                      /\ UNCHANGED <<legacy_logged_in, book, placed>>
                 ELSE IF AutoExecute
                 THEN PlaceForNewTrade(tr, "execute_trade_from_message")
                 ELSE /\ trades' = tr
                      /\ lastOp' = Op("execute_trade_from_message", Len(tr), 200, "pending", "none")
                      /\ UNCHANGED <<legacy_logged_in, book, placed>>

\* simulate_telegram_trade(message_text, execute), for a text the parser reads
\* as a signal whose symbol is in the instrument master.
simulate_telegram_trade ==
    /\ lastOp = Idle
    /\ UNCHANGED ext_vars
    /\ \E prices \in SignalPrices, execute \in BOOLEAN :
           LET tr == Append(trades, NewTrade(prices))
               op == IF execute THEN "simulate_telegram_trade(execute)"
                     ELSE "simulate_telegram_trade"
           IN
           /\ UNCHANGED <<settings, active_logged_in, paper_trades>>
           /\ Len(trades) < MaxTrades
           /\ IF execute /\ legacy_logged_in
              THEN PlaceForNewTrade(tr, op)
              ELSE /\ trades' = tr
                   /\ lastOp' = Op(op, Len(tr), 200, "created", "none")
                   /\ UNCHANGED <<legacy_logged_in, book, placed>>

\* ------------------------------------------------------------ environment

\* The rows POST /api/config/settings is called with.
SettingsInputs ==
    {r \in SettingsRows :
        \/ r.max_trades_per_day = DefaultMaxTradesPerDay /\ r.paper_trading_enabled
        \/ (r.auto_trade_enabled /\ ~r.require_manual_approval
              /\ ~r.paper_trading_enabled)}

\* create_or_update_settings.
create_or_update_settings ==
    /\ lastOp = Idle
    /\ UNCHANGED ext_vars
    /\ \E row \in SettingsInputs :
           settings' = [row EXCEPT
               !.active_broker_type = settings.active_broker_type,
               !.price_tolerance_percent = settings.price_tolerance_percent]
    /\ settings' # settings
    /\ UNCHANGED lastOp
    /\ UNCHANGED <<trades, legacy_logged_in, active_logged_in, book, placed,
                   paper_trades>>

\* POST /api/broker/login and /logout act on broker_service. Login reads the
\* stored configuration: none (404) or no TOTP secret (400) ends the request;
\* credentials that do not decrypt deactivate the configuration (400); else
\* broker_service.login runs, and its success marks the configuration active.
broker_login ==
    /\ lastOp = Idle
    /\ UNCHANGED login_frame
    /\ ~legacy_logged_in
    /\ IF ~broker_config.exists \/ ~broker_config.totp_secret
       THEN UNCHANGED <<legacy_logged_in, broker_config>>
       ELSE IF ~broker_config.decryptable
       THEN /\ broker_config' = [broker_config EXCEPT !.is_active = FALSE]
            /\ UNCHANGED legacy_logged_in
       ELSE \E status \in {"success", "error"} :
                IF status = "success"
                THEN /\ legacy_logged_in' = TRUE
                     /\ broker_config' = [broker_config EXCEPT !.is_active = TRUE]
                ELSE UNCHANGED <<legacy_logged_in, broker_config>>
    /\ UNCHANGED lastOp
    /\ UNCHANGED <<settings, trades, active_logged_in, book, placed,
                   paper_trades>>

broker_logout ==
    /\ lastOp = Idle
    /\ UNCHANGED ext_vars
    /\ legacy_logged_in
    /\ legacy_logged_in' = FALSE
    /\ UNCHANGED lastOp
    /\ UNCHANGED <<settings, trades, active_logged_in, book, placed,
                   paper_trades>>

\* POST /api/broker/brokers/{type}/login and /logout act on the registry's
\* instance of the active broker. Login reads the stored configuration: none
\* ends the request (404); credentials that do not decrypt deactivate the
\* configuration (400); else the instance's login runs (for Angel One its
\* success marks the configuration active).
login_specific_broker ==
    /\ lastOp = Idle
    /\ UNCHANGED login_frame
    /\ ~active_logged_in
    /\ IF ~broker_config.exists
       THEN UNCHANGED <<active_logged_in, broker_config>>
       ELSE IF ~broker_config.decryptable
       THEN /\ broker_config' = [broker_config EXCEPT !.is_active = FALSE]
            /\ UNCHANGED active_logged_in
       ELSE \E status \in {"success", "error"} :
                IF status = "success"
                THEN /\ active_logged_in' = TRUE
                     /\ broker_config' = [broker_config EXCEPT !.is_active = TRUE]
                ELSE UNCHANGED <<active_logged_in, broker_config>>
    /\ UNCHANGED lastOp
    /\ UNCHANGED <<settings, trades, legacy_logged_in, book, placed,
                   paper_trades>>

logout_specific_broker ==
    /\ lastOp = Idle
    /\ UNCHANGED ext_vars
    /\ active_logged_in
    /\ active_logged_in' = FALSE
    /\ UNCHANGED lastOp
    /\ UNCHANGED <<settings, trades, legacy_logged_in, book, placed,
                   paper_trades>>

\* The exchange moves an order that is not final to another status.
BrokerOrderUpdate ==
    /\ lastOp = Idle
    /\ UNCHANGED ext_vars
    /\ \E order_id \in DOMAIN book, vendor \in VendorStatuses :
           /\ book[order_id] \notin VendorFinal
           /\ vendor # book[order_id]
           /\ book' = [book EXCEPT ![order_id] = vendor]
           /\ UNCHANGED lastOp
           /\ UNCHANGED <<settings, trades, legacy_logged_in, active_logged_in,
                          placed, paper_trades>>

\* The order book stops listing an order (the book lists the day's orders).
BrokerOrderDropped ==
    /\ lastOp = Idle
    /\ UNCHANGED ext_vars
    /\ \E order_id \in DOMAIN book :
           /\ book' = [o \in DOMAIN book \ {order_id} |-> book[o]]
           /\ UNCHANGED lastOp
           /\ UNCHANGED <<settings, trades, legacy_logged_in, active_logged_in,
                          placed, paper_trades>>

\* The handler's reply reaches its caller (the round of the task ends).
deliver_response ==
    /\ lastOp # Idle
    /\ UNCHANGED <<order_sync_task, signal, registry_vars, backend_vars, index_vars, resolver_vars, broker_config>>
    /\ lastOp' = Idle
    /\ auto_order' = NoOrder
    /\ UNCHANGED <<settings, trades, legacy_logged_in, active_logged_in, book,
                   placed, paper_trades>>

\* Requests are served one at a time, each to its reply.
Next ==
    \/ create_trade
    \/ approve_trade
    \/ execute_trade
    \/ execute_bracket_order
    \/ sync_all_order_statuses
    \/ refresh_trade_status
    \/ periodic_order_status_sync
    \/ process_signal
    \/ execute_trade_from_message
    \/ simulate_telegram_trade
    \/ create_or_update_settings
    \/ broker_login
    \/ broker_logout
    \/ login_specific_broker
    \/ logout_specific_broker
    \/ BrokerOrderUpdate
    \/ BrokerOrderDropped
    \/ deliver_response

Spec == Init /\ [][Next]_vars

\* ------------------------------------------------ the sweeps over many trades
\* lifespan, after its yield: order_sync_task.cancel() and the await of the
\* task, then broker_registry.clear_instances(). The task is suspended in
\* sleep(15), or in the broadcast that follows the commit of its round;
\* CancelledError ends its loop there.
lifespan_shutdown ==
    /\ order_sync_task = "running"
    /\ order_sync_task' = "cancelled"
    /\ instances' = <<>>
    /\ UNCHANGED <<settings, trades, legacy_logged_in, active_logged_in, book,
                   placed, paper_trades, lastOp, auto_order, signal, brokers,
                   default_broker, created, returned, backend_vars, index_vars, resolver_vars, broker_config>>

\* A submitted trade of the store: the row execute_trade_internal leaves for
\* the k-th order the brokerage accepted, SUBMITTED or already seen OPEN.
SweepRow(k, status) ==
    [Submitted(NewTrade(<<100, 110, 90>>), OrderId(k)) EXCEPT !.status = status]

\* The store holds SweepTrades submitted trades, the order book lists their
\* orders in any vendor status, and broker_service is logged in.
SweepInit ==
    /\ settings = DefaultSettings
    /\ \E status \in [1..SweepTrades -> {"SUBMITTED", "OPEN"}] :
           trades = [k \in 1..SweepTrades |-> SweepRow(k, status[k])]
    /\ legacy_logged_in = TRUE
    /\ active_logged_in = FALSE
    /\ book \in [{OrderId(k) : k \in 1..SweepTrades} -> VendorStatuses]
    /\ placed = SweepTrades
    /\ paper_trades = 0
    /\ lastOp = Idle
    /\ order_sync_task = "running"
    /\ auto_order = NoOrder
    /\ signal = NoSignal
    /\ brokers = LifespanRegistrations
    /\ instances = <<>>
    /\ default_broker = "angel_one"
    /\ created = 0
    /\ returned = NoReturn
    /\ backend_logged_in = [b \in RegisteredBrokers |-> FALSE]
    /\ reply = NoReply
    /\ symbol_master = NewSymbolMaster
    /\ threads = <<>>
    /\ cache_file = NoCacheFile
    /\ scrip_master = {}
    /\ now = StartOfClock
    /\ resolution = NoResolution
    /\ broker_config = ActiveConfig

SweepNext ==
    \/ sync_all_order_statuses
    \/ periodic_order_status_sync
    \/ BrokerOrderUpdate
    \/ BrokerOrderDropped
    \/ lifespan_shutdown
    \/ deliver_response

SweepSpec == SweepInit /\ [][SweepNext]_vars

\* ------------------------------------------------------ the auto-trade gate
\* The AppSettings rows the store can hold: the columns of the settings API,
\* and active_broker_type and price_tolerance_percent, which set_active_broker
\* and the operator write.
GateSettingsRows ==
    [exists : {TRUE},
     auto_trade_enabled : BOOLEAN, require_manual_approval : BOOLEAN,
     paper_trading_enabled : BOOLEAN,
     max_trades_per_day : {1, DefaultMaxTradesPerDay},
     active_broker_type : {"angel_one", NULL, UnregisteredBroker},
     price_tolerance_percent : {1, DefaultPriceTolerance, 5}]

\* One signal reaches process_signal, for any settings row, with no trade or
\* one submitted trade made today, and the active broker logged in or not.
GateInit ==
    /\ settings \in GateSettingsRows \cup {NoSettings}
    /\ trades \in {<<>>, <<SweepRow(1, "SUBMITTED")>>}
    /\ book = [o \in {OrderId(k) : k \in 1..Len(trades)} |-> "open"]
    /\ placed = Len(trades)
    /\ legacy_logged_in = FALSE
    /\ brokers = LifespanRegistrations
    /\ active_logged_in \in BOOLEAN
    /\ active_logged_in => ActiveBrokerType # NULL
    /\ paper_trades = 0
    /\ lastOp = Idle
    /\ order_sync_task = "running"
    /\ auto_order = NoOrder
    /\ signal \in GateSignals
    /\ instances = <<>>
    /\ default_broker = "angel_one"
    /\ created = 0
    /\ returned = NoReturn
    /\ backend_logged_in = [b \in RegisteredBrokers |-> FALSE]
    /\ reply = NoReply
    /\ symbol_master = NewSymbolMaster
    /\ threads = <<>>
    /\ cache_file = NoCacheFile
    /\ scrip_master = {}
    /\ now = StartOfClock
    /\ resolution = NoResolution
    /\ broker_config = ActiveConfig

GateNext ==
    \/ process_signal
    \/ deliver_response

GateSpec == GateInit /\ [][GateNext]_vars

\* ------------------------------------------------ the backends' interface
\* The abstract methods of BrokerInterface the orchestrator calls.
InterfaceMethods ==
    {"place_order", "cancel_order", "modify_order", "get_order_status",
     "get_all_order_statuses", "get_positions", "get_holdings",
     "get_order_book", "get_funds", "get_ltp", "search_symbols",
     "refresh_instruments", "place_bracket_order", "place_gtt_order"}

\* The methods AngelOneBrokerService does not define.
AngelOneUndefined == {"modify_order", "place_bracket_order", "place_gtt_order"}

BracketUnsupported ==
    "Bracket orders are no longer supported by Zerodha. Use GTT orders instead."

\* The outcomes [result, network] of a call on a backend that is not logged
\* in. result is the message of the error result ("error": an error result
\* without a message), or the value returned: "None", "[]", "False", "True",
\* "results" (the symbols found); "undefined": the class has no such method.
Outcome(result, network) == [result |-> result, network |-> network]

NotLoggedInOutcomes(backend, method) ==
    IF backend = "angel_one" THEN
        IF method \in AngelOneUndefined THEN {Outcome("undefined", FALSE)}
        ELSE IF method = "search_symbols"
        THEN {Outcome("results", FALSE), Outcome("results", TRUE)}
        ELSE IF method = "refresh_instruments"
        THEN {Outcome("True", TRUE), Outcome("False", TRUE)}
        ELSE {Outcome(ServiceNotLoggedInMessage, FALSE)}
    ELSE IF backend = "zerodha" THEN
        IF method = "place_bracket_order" THEN {Outcome(BracketUnsupported, FALSE)}
        ELSE IF method \in {"get_order_status", "get_positions", "get_holdings",
                            "get_order_book", "get_funds"}
        THEN {Outcome("error", FALSE)}
        ELSE IF method = "get_ltp" THEN {Outcome("None", FALSE)}
        ELSE IF method = "search_symbols" THEN {Outcome("[]", FALSE)}
        ELSE IF method = "refresh_instruments" THEN {Outcome("False", FALSE)}
        ELSE {Outcome(ServiceNotLoggedInMessage, FALSE)}
    ELSE
        IF method \in {"get_order_status", "get_positions", "get_holdings",
                       "get_order_book", "get_funds", "get_ltp"}
        THEN {Outcome("error", FALSE)}
        ELSE IF method = "search_symbols" THEN {Outcome("[]", FALSE)}
        ELSE IF method = "refresh_instruments" THEN {Outcome("True", FALSE)}
        ELSE {Outcome(ServiceNotLoggedInMessage, FALSE)}

\* Order statuses as the vendors' APIs spell them.
VendorVocabulary ==
    {"complete", "COMPLETE", "fill", "rejected", "REJECTED", "cancelled",
     "cancel", "open", "OPEN", "pending", "trigger pending", "trigger_pending",
     "after market order req received", "modify validation pending"}

\* str.lower() on the vocabulary.
Lower(status) ==
    IF status = "COMPLETE" THEN "complete"
    ELSE IF status = "REJECTED" THEN "rejected"
    ELSE IF status = "OPEN" THEN "open"
    ELSE status

\* The internal status of get_all_order_statuses of Zerodha (575-586).
ZerodhaInternalStatus(vendor) ==
    LET status == Lower(vendor)
    IN  IF status = "complete" THEN "EXECUTED"
        ELSE IF status = "rejected" THEN "REJECTED"
        ELSE IF status = "cancelled" THEN "CANCELLED"
        ELSE IF status \in {"open", "pending", "trigger pending"} THEN "OPEN"
        ELSE "PENDING"

\* The internal status of get_all_order_statuses of Shoonya (591-602).
ShoonyaInternalStatus(vendor) ==
    LET status == Lower(vendor)
    IN  IF status \in {"complete", "fill"} THEN "EXECUTED"
        ELSE IF status = "rejected" THEN "REJECTED"
        ELSE IF status \in {"cancelled", "cancel"} THEN "CANCELLED"
        ELSE IF status \in {"open", "pending", "trigger_pending"} THEN "OPEN"
        ELSE "PENDING"

\* The internal_status of the result of a status query that succeeded, NULL
\* when the result has none: get_order_status of Zerodha and of Shoonya
\* return the vendor's status as order_status and no internal_status.
ReportedInternalStatus(backend, method, vendor) ==
    IF backend = "angel_one" THEN InternalStatus(Lower(vendor))
    ELSE IF method = "get_order_status" THEN NULL
    ELSE IF backend = "zerodha" THEN ZerodhaInternalStatus(vendor)
    ELSE ShoonyaInternalStatus(vendor)

StatusQueries == {"get_order_status", "get_all_order_statuses"}

\* What the vendor does with a login: it accepts the credentials, it refuses
\* them, or the call raises (no network, a malformed answer).
LoginOutcomes == {"success", "Login failed", "exception"}

\* is_logged_in after login, from what it was before. Angel One sets the flag
\* on success and writes it nowhere else (a refusal and an exception return
\* an error result); Shoonya does the same for a refusal and clears the flag
\* in its except branch; for Zerodha a refusal is an exception of
\* generate_session or profile, and every except branch clears the flag.
LoggedInAfterLogin(backend, outcome, logged_in) ==
    IF outcome = "success" THEN TRUE
    ELSE IF backend = "angel_one" THEN logged_in
    ELSE IF backend = "shoonya" /\ outcome = "Login failed" THEN logged_in
    ELSE FALSE

\* login and logout of a backend, in any state of the backend.
login ==
    /\ \E backend \in RegisteredBrokers, outcome \in LoginOutcomes :
           /\ backend_logged_in' =
                  [backend_logged_in EXCEPT ![backend] =
                      LoggedInAfterLogin(backend, outcome, backend_logged_in[backend])]
           /\ reply' = BackendReply(backend, "login",
                                    IF outcome = "success" THEN "success" ELSE "error",
                                    TRUE, NULL, NULL)
    /\ UNCHANGED <<settings, trades, legacy_logged_in, active_logged_in, book,
                   placed, paper_trades, lastOp, order_sync_task, auto_order,
                   signal, registry_vars, index_vars, resolver_vars, broker_config>>

logout ==
    /\ \E backend \in RegisteredBrokers :
           /\ backend_logged_in[backend]
           /\ backend_logged_in' = [backend_logged_in EXCEPT ![backend] = FALSE]
           /\ reply' = BackendReply(backend, "logout", "None", TRUE, NULL, NULL)
    /\ UNCHANGED <<settings, trades, legacy_logged_in, active_logged_in, book,
                   placed, paper_trades, lastOp, order_sync_task, auto_order,
                   signal, registry_vars, index_vars, resolver_vars, broker_config>>

\* One call of a method of the interface on a backend. Logged in, the call
\* goes to the vendor (a method the backend does not support or define does
\* not); a status query that succeeds reports one order's status.
interface_call ==
    /\ \E backend \in RegisteredBrokers, method \in InterfaceMethods :
           IF ~backend_logged_in[backend]
           THEN \E outcome \in NotLoggedInOutcomes(backend, method) :
                    reply' = BackendReply(backend, method, outcome.result,
                                   outcome.network, NULL, NULL)
           ELSE IF \/ backend = "angel_one" /\ method \in AngelOneUndefined
                   \/ backend = "zerodha" /\ method = "place_bracket_order"
                   \/ backend = "shoonya" /\ method \in {"place_gtt_order",
                                                          "refresh_instruments"}
           THEN \E outcome \in NotLoggedInOutcomes(backend, method) :
                    reply' = BackendReply(backend, method,
                                   IF outcome.result = ServiceNotLoggedInMessage
                                   THEN "not supported" ELSE outcome.result,
                                   FALSE, NULL, NULL)
           ELSE \E result \in {"success", "error"}, vendor \in VendorVocabulary :
                    IF result = "success" /\ method \in StatusQueries
                    THEN reply' = BackendReply(backend, method, result, TRUE, vendor,
                                        ReportedInternalStatus(backend, method, vendor))
                    ELSE reply' = BackendReply(backend, method, result, TRUE, NULL, NULL)
    /\ UNCHANGED <<settings, trades, legacy_logged_in, active_logged_in, book,
                   placed, paper_trades, lastOp, order_sync_task, auto_order,
                   signal, registry_vars, index_vars, resolver_vars,
                   backend_logged_in, broker_config>>

BackendInit ==
    /\ Init
    /\ settings = DefaultSettings

BackendNext ==
    \/ login
    \/ logout
    \/ interface_call

BackendSpec == BackendInit /\ [][BackendNext]_vars

\* ------------------------------------------------------ broker_registry.py
\* The broker types a caller may name.
BrokerTypes == RegisteredBrokers \cup {UnregisteredBroker}

\* What the registry calls leave alone.
registry_frame ==
    <<settings, trades, legacy_logged_in, active_logged_in, book, placed,
      paper_trades, lastOp, order_sync_task, auto_order, signal, backend_vars,
      index_vars, resolver_vars, broker_config>>

\* The sequence without its entries equal to broker_type.
Without(seq, broker_type) == SelectSeq(seq, LAMBDA b : b # broker_type)

\* An unregister that leaves the cached instance where it is.
DropNothing(dict, broker_type) == dict

\* The dict without the key broker_type.
Drop(dict, broker_type) ==
    [b \in DOMAIN dict \ {broker_type} |-> dict[b]]

\* register(broker_type, broker_class) with a class that implements
\* BrokerInterface: a new key is added last, a known key keeps its place.
register ==
    /\ \E broker_type \in BrokerTypes :
           /\ brokers' = IF broker_type \in Registered THEN brokers
                         ELSE Append(brokers, broker_type)
           /\ default_broker' = IF default_broker = NULL THEN broker_type
                                ELSE default_broker
           /\ returned' = Returned("register", broker_type, FALSE, 0, NULL)
    /\ UNCHANGED <<instances, created>>
    /\ UNCHANGED registry_frame

unregister ==
    /\ \E broker_type \in BrokerTypes :
           /\ brokers' = Without(brokers, broker_type)
           /\ instances' = Drop(instances, broker_type)
           /\ default_broker' =
                  IF default_broker = broker_type
                  THEN IF Without(brokers, broker_type) = <<>> THEN NULL
                       ELSE Head(Without(brokers, broker_type))
                  ELSE default_broker
           /\ returned' = Returned("unregister", broker_type, FALSE, 0, NULL)
    /\ UNCHANGED created
    /\ UNCHANGED registry_frame

\* get_broker_class: the error it raises (NULL: it returns the class).
get_broker_class(broker_type) ==
    IF broker_type \notin Registered THEN "ValueError" ELSE NULL

\* A cache that is written for cache=False as well.
CacheAlways(cache) == TRUE

\* "if cache:" of create_broker: the new instance is stored.
CacheRequested(cache) == cache

\* create_broker(broker_type, cache) as a step: call is the caller's name.
\* The instance the class constructs is the next one never returned before.
CreateBroker(call, broker_type, cache) ==
    IF cache /\ broker_type \in DOMAIN instances
    THEN /\ returned' = Returned(call, broker_type, cache,
                                  instances[broker_type], NULL)
         /\ UNCHANGED <<instances, created>>
    ELSE IF get_broker_class(broker_type) # NULL
    THEN /\ returned' = Returned(call, broker_type, cache, 0,
                                  get_broker_class(broker_type))
         /\ UNCHANGED <<instances, created>>
    ELSE /\ created < MaxInstances
         /\ created' = created + 1
         /\ instances' = IF CacheRequested(cache)
                         THEN (broker_type :> created + 1) @@ instances
                         ELSE instances
         /\ returned' = Returned(call, broker_type, cache, created + 1, NULL)

create_broker ==
    /\ \E broker_type \in BrokerTypes, cache \in BOOLEAN :
           CreateBroker("create_broker", broker_type, cache)
    /\ UNCHANGED <<brokers, default_broker>>
    /\ UNCHANGED registry_frame

\* get_active_broker(db): the default broker without a settings row, None
\* without an active type, and None for the ValueError of create_broker.
get_active_broker ==
    /\ IF ~settings.exists
       THEN IF default_broker # NULL
            THEN CreateBroker("get_active_broker", default_broker, TRUE)
            ELSE /\ returned' = Returned("get_active_broker", NULL, TRUE, 0, NULL)
                 /\ UNCHANGED <<instances, created>>
       ELSE IF settings.active_broker_type = NULL
       THEN /\ returned' = Returned("get_active_broker", NULL, TRUE, 0, NULL)
            /\ UNCHANGED <<instances, created>>
       ELSE IF /\ settings.active_broker_type \notin DOMAIN instances
               /\ get_broker_class(settings.active_broker_type) # NULL
       THEN /\ returned' = Returned("get_active_broker",
                                     settings.active_broker_type, TRUE, 0, NULL)
            /\ UNCHANGED <<instances, created>>
       ELSE CreateBroker("get_active_broker", settings.active_broker_type, TRUE)
    /\ UNCHANGED <<brokers, default_broker>>
    /\ UNCHANGED registry_frame

\* set_default_broker: ValueError for a type that is not registered.
set_default_broker ==
    /\ \E broker_type \in BrokerTypes :
           IF broker_type \notin Registered
           THEN /\ returned' = Returned("set_default_broker", broker_type,
                                         FALSE, 0, "ValueError")
                /\ UNCHANGED default_broker
           ELSE /\ returned' = Returned("set_default_broker", broker_type,
                                         FALSE, 0, NULL)
                /\ default_broker' = broker_type
    /\ UNCHANGED <<brokers, instances, created>>
    /\ UNCHANGED registry_frame

clear_instances ==
    /\ instances' = <<>>
    /\ returned' = Returned("clear_instances", NULL, FALSE, 0, NULL)
    /\ UNCHANGED <<brokers, default_broker, created>>
    /\ UNCHANGED registry_frame

\* The settings rows get_active_broker may find: the active broker is a
\* registered type, empty, or a type nobody registers.
RegistrySettingsRows ==
    {[DefaultSettings EXCEPT !.active_broker_type = b] :
        b \in {"angel_one", NULL, UnregisteredBroker}}

\* BrokerRegistry(): nothing registered, nothing cached, no default.
RegistryInit ==
    /\ settings \in RegistrySettingsRows \cup {NoSettings}
    /\ trades = <<>>
    /\ legacy_logged_in = FALSE
    /\ active_logged_in = FALSE
    /\ book = <<>>
    /\ placed = 0
    /\ paper_trades = 0
    /\ lastOp = Idle
    /\ order_sync_task = "running"
    /\ auto_order = NoOrder
    /\ signal = NoSignal
    /\ brokers = <<>>
    /\ instances = <<>>
    /\ default_broker = NULL
    /\ created = 0
    /\ returned = NoReturn
    /\ backend_logged_in = [b \in RegisteredBrokers |-> FALSE]
    /\ reply = NoReply
    /\ symbol_master = NewSymbolMaster
    /\ threads = <<>>
    /\ cache_file = NoCacheFile
    /\ scrip_master = {}
    /\ now = StartOfClock
    /\ resolution = NoResolution
    /\ broker_config = ActiveConfig

RegistryNext ==
    \/ register
    \/ unregister
    \/ create_broker
    \/ get_active_broker
    \/ set_default_broker
    \/ clear_instances

RegistrySpec == RegistryInit /\ [][RegistryNext]_vars

\* ---------------------------- broker_service.py: the callers of SymbolMaster
\* What a look at the instruments found: whether _loaded was set, and the dict.
Look(loaded, instruments) == [loaded |-> loaded, instruments |-> instruments]

NoLook == Look(FALSE, EmptyDict)

\* A caller of symbol_master: where it stands, its arguments and locals, and
\* what its last calls returned.
Thread(pc, force_refresh, reading, instruments_list, i, from_cache,
       refreshed, token, seen) ==
    [pc |-> pc, force_refresh |-> force_refresh, reading |-> reading,
     instruments_list |-> instruments_list, i |-> i,
     from_cache |-> from_cache, refreshed |-> refreshed, token |-> token,
     seen |-> seen]

IdleThread == Thread("idle", FALSE, NULL, <<>>, 0, FALSE, FALSE, NULL, NoLook)

\* What the callers of symbol_master leave alone.
index_frame ==
    <<settings, trades, legacy_logged_in, active_logged_in, book, placed,
      paper_trades, lastOp, order_sync_task, auto_order, signal,
      registry_vars, backend_vars, scrip_master, resolver_vars, broker_config>>

\* The thread moves to pc with its other fields as they are.
Goto(t, pc) == [threads EXCEPT ![t].pc = pc]

\* load_instruments returns: to get_token when it was called from there.
Return(t, refreshed) ==
    [threads EXCEPT ![t].pc = IF threads[t].reading # NULL THEN "lookup"
                              ELSE "idle",
                    ![t].force_refresh = FALSE,
                    ![t].refreshed = refreshed,
                    ![t].instruments_list = <<>>,
                    ![t].i = 0,
                    ![t].from_cache = FALSE]

\* A caller enters load_instruments(force_refresh).
load_instruments ==
    /\ \E t \in DOMAIN threads, force_refresh \in BOOLEAN :
           /\ threads[t].pc = "idle"
           /\ threads' = [threads EXCEPT
                             ![t] = Thread("loaded_check", force_refresh, NULL,
                                           <<>>, 0, FALSE, FALSE, NULL, NoLook)]
    /\ UNCHANGED <<symbol_master, cache_file>>
    /\ UNCHANGED index_frame

\* A caller enters get_token(symbol, "NSE"): it loads first unless _loaded.
get_token ==
    /\ \E t \in DOMAIN threads, symbol \in ReadSymbols :
           /\ threads[t].pc = "idle"
           /\ threads' = [threads EXCEPT
                             ![t] = Thread(IF symbol_master.loaded THEN "lookup"
                                           ELSE "loaded_check",
                                           FALSE, symbol, <<>>, 0, FALSE, FALSE,
                                           NULL, NoLook)]
    /\ UNCHANGED <<symbol_master, cache_file>>
    /\ UNCHANGED index_frame

\* "if self._loaded and not force_refresh: return True".
loaded_check ==
    /\ \E t \in DOMAIN threads :
           /\ threads[t].pc = "loaded_check"
           /\ threads' = IF symbol_master.loaded /\ ~threads[t].force_refresh
                         THEN Return(t, TRUE)
                         ELSE Goto(t, "loading_check")
    /\ UNCHANGED <<symbol_master, cache_file>>
    /\ UNCHANGED index_frame

\* "if self._loading: return False".
loading_check ==
    /\ \E t \in DOMAIN threads :
           /\ threads[t].pc = "loading_check"
           /\ threads' = IF symbol_master.loading THEN Return(t, FALSE)
                         ELSE Goto(t, "loading_set")
    /\ UNCHANGED <<symbol_master, cache_file>>
    /\ UNCHANGED index_frame

\* "self._loading = True".
loading_set ==
    /\ \E t \in DOMAIN threads :
           /\ threads[t].pc = "loading_set"
           /\ threads' = Goto(t, "read_cache")
    /\ symbol_master' = [symbol_master EXCEPT !.loading = TRUE]
    /\ UNCHANGED cache_file
    /\ UNCHANGED index_frame

\* The cache file is read when the load is not forced and the file exists,
\* is younger than 24 hours and parses; otherwise the download is next.
read_cache ==
    /\ \E t \in DOMAIN threads, fresh \in BOOLEAN :
           /\ threads[t].pc = "read_cache"
           /\ threads' =
                  IF ~threads[t].force_refresh /\ cache_file.exists /\ fresh
                  THEN [threads EXCEPT
                          ![t].pc = "reset_instruments",
                          ![t].instruments_list = cache_file.content,
                          ![t].from_cache = TRUE]
                  ELSE Goto(t, "download")
    /\ UNCHANGED <<symbol_master, cache_file>>
    /\ UNCHANGED index_frame

\* requests.get and response.json(): a list the server serves, or an error,
\* which the handler of line 86 turns into return False.
download ==
    /\ \E t \in DOMAIN threads, ok \in BOOLEAN, served \in scrip_master :
           /\ threads[t].pc = "download"
           /\ threads' =
                  IF ok
                  THEN [threads EXCEPT ![t].pc = "write_cache",
                                       ![t].instruments_list = served,
                                       ![t].from_cache = FALSE]
                  ELSE [threads EXCEPT ![t].pc = "finally",
                                       ![t].refreshed = FALSE]
    /\ UNCHANGED <<symbol_master, cache_file>>
    /\ UNCHANGED index_frame

\* json.dump(instruments_list, f).
write_cache ==
    /\ \E t \in DOMAIN threads :
           /\ threads[t].pc = "write_cache"
           /\ cache_file' = [exists |-> TRUE,
                             content |-> threads[t].instruments_list]
           /\ threads' = Goto(t, "reset_instruments")
    /\ UNCHANGED symbol_master
    /\ UNCHANGED index_frame

\* _build_index: "self._instruments = {}".
reset_instruments ==
    /\ \E t \in DOMAIN threads :
           /\ threads[t].pc = "reset_instruments"
           /\ threads' = Goto(t, "reset_name_index")
    /\ symbol_master' = [symbol_master EXCEPT !.instruments = EmptyDict]
    /\ UNCHANGED cache_file
    /\ UNCHANGED index_frame

\* _build_index: "self._name_index = {}".
reset_name_index ==
    /\ \E t \in DOMAIN threads :
           /\ threads[t].pc = "reset_name_index"
           /\ threads' = [threads EXCEPT ![t].pc = "build_index",
                                         ![t].i = 1]
    /\ symbol_master' = [symbol_master EXCEPT !.name_index = EmptyDict]
    /\ UNCHANGED cache_file
    /\ UNCHANGED index_frame

\* _build_index: one turn of the loop. At the end of the list the build
\* returns; an element that is no object raises, which after a cache read
\* leads to the download and after a download to return False.
build_index ==
    /\ \E t \in DOMAIN threads :
           /\ threads[t].pc = "build_index"
           /\ LET th == threads[t]
                  built == BuildAdd([instruments |-> symbol_master.instruments,
                                     name_index |-> symbol_master.name_index],
                                    th.instruments_list[th.i])
              IN  IF th.i > Len(th.instruments_list)
                  THEN /\ threads' = Goto(t, "set_loaded")
                       /\ UNCHANGED symbol_master
                  ELSE IF ~th.instruments_list[th.i].object
                  THEN /\ threads' =
                              IF th.from_cache THEN Goto(t, "download")
                              ELSE [threads EXCEPT ![t].pc = "finally",
                                                   ![t].refreshed = FALSE]
                       /\ UNCHANGED symbol_master
                  ELSE /\ threads' = [threads EXCEPT ![t].i = th.i + 1]
                       /\ symbol_master' =
                              [symbol_master EXCEPT
                                 !.instruments = built.instruments,
                                 !.name_index = built.name_index]
    /\ UNCHANGED cache_file
    /\ UNCHANGED index_frame

\* "self._loaded = True" and return True, by way of the finally clause.
set_loaded ==
    /\ \E t \in DOMAIN threads :
           /\ threads[t].pc = "set_loaded"
           /\ threads' = [threads EXCEPT ![t].pc = "finally",
                                         ![t].refreshed = TRUE]
    /\ symbol_master' = [symbol_master EXCEPT !.loaded = TRUE]
    /\ UNCHANGED cache_file
    /\ UNCHANGED index_frame

\* "finally: self._loading = False", and the return.
release_loading ==
    /\ \E t \in DOMAIN threads :
           /\ threads[t].pc = "finally"
           /\ threads' = Return(t, threads[t].refreshed)
    /\ symbol_master' = [symbol_master EXCEPT !.loading = FALSE]
    /\ UNCHANGED cache_file
    /\ UNCHANGED index_frame

\* The lookups of get_token in self._instruments, and its return.
lookup ==
    /\ \E t \in DOMAIN threads :
           /\ threads[t].pc = "lookup"
           /\ threads' =
                  [threads EXCEPT
                     ![t].pc = "idle",
                     ![t].reading = NULL,
                     ![t].token = GetToken(symbol_master.instruments,
                                           threads[t].reading, "NSE"),
                     ![t].seen = Look(symbol_master.loaded,
                                      symbol_master.instruments)]
    /\ UNCHANGED <<symbol_master, cache_file>>
    /\ UNCHANGED index_frame

IndexNext ==
    \/ load_instruments
    \/ get_token
    \/ loaded_check
    \/ loading_check
    \/ loading_set
    \/ read_cache
    \/ download
    \/ write_cache
    \/ reset_instruments
    \/ reset_name_index
    \/ build_index
    \/ set_loaded
    \/ release_loading
    \/ lookup

\* The scrip master as the server has it at different times, and a response
\* whose element is no object.
SbinNse == Instrument("SBIN-EQ", "SBIN", "NSE", "3045")
SbinBse == Instrument("SBIN", "SBIN", "BSE", "500112")
ScripMasterOld == <<SbinNse>>
ScripMasterNew == <<SbinBse>>
ScripMasterBroken == <<NotAnObject>>

\* Everything but the index and its callers, as after start-up.
IndexBase ==
    /\ settings = DefaultSettings
    /\ trades = <<>>
    /\ legacy_logged_in = FALSE
    /\ active_logged_in = FALSE
    /\ book = <<>>
    /\ placed = 0
    /\ paper_trades = 0
    /\ lastOp = Idle
    /\ order_sync_task = "running"
    /\ auto_order = NoOrder
    /\ signal = NoSignal
    /\ brokers = LifespanRegistrations
    /\ instances = <<>>
    /\ default_broker = "angel_one"
    /\ created = 0
    /\ returned = NoReturn
    /\ backend_logged_in = [b \in RegisteredBrokers |-> FALSE]
    /\ reply = NoReply
    /\ now = StartOfClock
    /\ resolution = NoResolution
    /\ broker_config = ActiveConfig

\* SymbolMaster() with MaxThreads callers and no cache file.
IndexInit ==
    /\ IndexBase
    /\ symbol_master = NewSymbolMaster
    /\ threads = [t \in 1..MaxThreads |-> IdleThread]
    /\ cache_file = NoCacheFile
    /\ scrip_master = {ScripMasterOld, ScripMasterNew, ScripMasterBroken}

IndexSpec == IndexInit /\ [][IndexNext]_vars

\* The instrument lists _build_index is studied on: up to MaxInstruments
\* objects that may share symbol, name or both.
BuildInstruments ==
    {Instrument(symbol, name, "NSE", token) :
        symbol \in {"SBIN-EQ", "SBIN"}, name \in {"SBIN", "Sbin", ""},
        token \in {"3045", "500112"}}

InstrumentLists ==
    UNION {[1..n -> BuildInstruments] : n \in 1..MaxInstruments}

\* One caller, and a server that serves one of the lists.
BuildInit ==
    /\ IndexBase
    /\ symbol_master = NewSymbolMaster
    /\ threads = [t \in {1} |-> IdleThread]
    /\ \E instruments_list \in InstrumentLists :
           /\ scrip_master = {instruments_list}
           /\ cache_file \in {NoCacheFile,
                               [exists |-> TRUE, content |-> instruments_list]}

BuildSpec == BuildInit /\ [][IndexNext]_vars

\* ------------------------------------- symbol_resolver.py: the resolver's callers
\* The signals' symbols under study: options and futures on NSE and BSE
\* indices and on a stock, with and without blanks and an expiry hint, and
\* equities by symbol, alias, fragment and an unlisted name.
RawSymbols ==
    {"NIFTY 25000 CE", "NIFTY 25000 CE FEB", "SENSEX 85500CE", "SENSEX85500CE",
     "RELIANCE 1400 PUT", "NIFTY FUT", "SENSEX FUT", "BANKEX FUTURE FEB",
     "  sbin ", "SBI", "SB", "TCS"}

\* What the resolver's callers leave alone.
resolver_frame ==
    <<settings, trades, legacy_logged_in, active_logged_in, book, placed,
      paper_trades, lastOp, order_sync_task, auto_order, signal,
      registry_vars, backend_vars, index_vars, broker_config>>

\* A caller resolves a symbol against the loaded index.
resolve_symbol ==
    /\ symbol_master.loaded
    /\ \E raw_symbol \in RawSymbols, exchange \in {"NSE", "BSE"} :
           resolution' =
               [raw_symbol |-> raw_symbol, exchange |-> exchange,
                result |-> ResolveSymbol(symbol_master.instruments,
                                         raw_symbol, exchange, now)]
    /\ UNCHANGED now
    /\ UNCHANGED resolver_frame

\* Time passes: to the afternoon of the day, or to the next morning.
tick ==
    /\ now.day_index < MaxDays
    /\ now' = IF now.hour < 15 THEN [now EXCEPT !.hour = 16]
              ELSE [day_index |-> now.day_index + 1, hour |-> 10]
    /\ UNCHANGED resolution
    /\ UNCHANGED resolver_frame

ResolverNext ==
    \/ resolve_symbol
    \/ tick

\* A scrip master with weekly options, monthly futures and an equity.
ScripMasterFno ==
    <<Instrument("NIFTY30JAN2525000CE", "NIFTY", "NFO", "45001"),
      Instrument("NIFTY06FEB2525000CE", "NIFTY", "NFO", "45002"),
      Instrument("SENSEX04FEB2585500CE", "SENSEX", "BFO", "82001"),
      Instrument("NIFTY25JANFUT", "NIFTY", "NFO", "35001"),
      Instrument("NIFTY25FEBFUT", "NIFTY", "NFO", "35002"),
      Instrument("SENSEX25JANFUT", "SENSEX", "BFO", "83001"),
      SbinNse, SbinBse>>

\* The index is loaded from one snapshot and stays as it is.
ResolverInit ==
    /\ IndexBase
    /\ \E snapshot \in {ScripMasterFno, ScripMasterOld} :
           /\ symbol_master =
                  [instruments |-> BuildIndex(snapshot).instruments,
                   name_index |-> BuildIndex(snapshot).name_index,
                   loaded |-> TRUE, loading |-> FALSE]
           /\ scrip_master = {snapshot}
           /\ cache_file = [exists |-> TRUE, content |-> snapshot]
    /\ threads = <<>>

ResolverSpec == ResolverInit /\ [][ResolverNext]_vars

\* ------------------------------------ trades.py: execution of stored trades
\* The symbols of the stored trades, as the telegram handlers store them (the
\* signal's symbol in upper case): an NSE option, a BSE option, an unlisted
\* name and a listed equity.
ExecSymbols == {"NIFTY 25000 CE", "SENSEX 85500CE", "TCS", "SBIN"}

\* Their prices: all present, or one of entry, target and stop-loss missing.
ExecPrices == {<<100, 110, 90>>, <<0, 110, 90>>, <<100, 0, 90>>, <<100, 110, 0>>}

\* A scrip master with this week's options and an equity.
ScripMasterOptions ==
    <<Instrument("NIFTY30JAN2525000CE", "NIFTY", "NFO", "45001"),
      Instrument("SENSEX04FEB2585500CE", "SENSEX", "BFO", "82001"),
      SbinNse>>

\* The index _build_index makes of each snapshot.
ExecIndexes ==
    [snapshot \in {ScripMasterOptions, ScripMasterOld} |-> BuildIndex(snapshot)]

\* One stored PENDING trade, an index loaded from one snapshot, an account
\* with one earlier order, complete, and broker_service logged in or not.
ExecInit ==
    /\ settings = DefaultSettings
    /\ \E raw_symbol \in ExecSymbols, prices \in ExecPrices :
           trades = <<[NewTrade(prices) EXCEPT !.symbol = raw_symbol]>>
    /\ legacy_logged_in \in BOOLEAN
    /\ active_logged_in = FALSE
    /\ book = (OrderId(1) :> "complete")
    /\ placed = 1
    /\ paper_trades = 0
    /\ lastOp = Idle
    /\ order_sync_task = "running"
    /\ auto_order = NoOrder
    /\ signal = NoSignal
    /\ brokers = LifespanRegistrations
    /\ instances = <<>>
    /\ default_broker = "angel_one"
    /\ created = 0
    /\ returned = NoReturn
    /\ backend_logged_in = [b \in RegisteredBrokers |-> FALSE]
    /\ reply = NoReply
    /\ \E snapshot \in DOMAIN ExecIndexes :
           /\ symbol_master =
                  [instruments |-> ExecIndexes[snapshot].instruments,
                   name_index |-> ExecIndexes[snapshot].name_index,
                   loaded |-> TRUE, loading |-> FALSE]
           /\ scrip_master = {snapshot}
           /\ cache_file = [exists |-> TRUE, content |-> snapshot]
    /\ threads = <<>>
    /\ now = StartOfClock
    /\ resolution = NoResolution
    /\ broker_config = ActiveConfig

ExecNext ==
    \/ approve_trade
    \/ execute_trade
    \/ execute_bracket_order
    \/ deliver_response

ExecSpec == ExecInit /\ [][ExecNext]_vars

\* ------------------------- symbol_resolver.py: the search among many options
\* A scrip master with more instruments of one underlying than the fallback
\* search takes (limit=50): a NIFTY 25000 call, 48 NIFTY puts, the 25000 call
\* of the week after, and one more put.
NiftyPut(i) ==
    Instrument("NIFTY30JAN25" \o ToString(20000 + i) \o "PE", "NIFTY", "NFO",
               ToString(50000 + i))

ScripMasterLarge ==
    <<Instrument("NIFTY30JAN2525000CE", "NIFTY", "NFO", "45001")>>
    \o [i \in 1..48 |-> NiftyPut(i)]
    \o <<Instrument("NIFTY06FEB2525000CE", "NIFTY", "NFO", "45002"),
         NiftyPut(49)>>

\* The index _build_index makes of each snapshot.
SearchIndexes ==
    [snapshot \in {ScripMasterFno, ScripMasterLarge} |-> BuildIndex(snapshot)]

\* The index is loaded from one snapshot and stays as it is.
SearchInit ==
    /\ IndexBase
    /\ \E snapshot \in DOMAIN SearchIndexes :
           /\ symbol_master =
                  [instruments |-> SearchIndexes[snapshot].instruments,
                   name_index |-> SearchIndexes[snapshot].name_index,
                   loaded |-> TRUE, loading |-> FALSE]
           /\ scrip_master = {snapshot}
           /\ cache_file = [exists |-> TRUE, content |-> snapshot]
    /\ threads = <<>>

SearchSpec == SearchInit /\ [][ResolverNext]_vars

\* -------------------------------- api/broker.py: the session of the broker
\* One stored PENDING trade of SBIN, any stored configuration, both services
\* logged out: the requests log in and out and execute the trade.
SessionInit ==
    /\ settings = DefaultSettings
    /\ trades = <<NewTrade(<<100, 110, 90>>)>>
    /\ legacy_logged_in = FALSE
    /\ active_logged_in = FALSE
    /\ book = <<>>
    /\ placed = 0
    /\ paper_trades = 0
    /\ lastOp = Idle
    /\ order_sync_task = "running"
    /\ auto_order = NoOrder
    /\ signal = NoSignal
    /\ brokers = LifespanRegistrations
    /\ instances = <<>>
    /\ default_broker = "angel_one"
    /\ created = 0
    /\ returned = NoReturn
    /\ backend_logged_in = [b \in RegisteredBrokers |-> FALSE]
    /\ reply = NoReply
    /\ symbol_master = NewSymbolMaster
    /\ threads = <<>>
    /\ cache_file = NoCacheFile
    /\ scrip_master = {}
    /\ now = StartOfClock
    /\ resolution = NoResolution
    /\ broker_config \in BrokerConfigs

SessionNext ==
    \/ broker_login
    \/ broker_logout
    \/ login_specific_broker
    \/ logout_specific_broker
    \/ execute_trade
    \/ deliver_response

SessionSpec == SessionInit /\ [][SessionNext]_vars

\* ------------------------------------------ the daily limit of the trades
\* The settings rows with a daily limit of no trade or of one trade
\* (max_trades_per_day is any integer: schemas.py 156, config.py 42).
LimitSettingsRows ==
    [exists : {TRUE},
     auto_trade_enabled : BOOLEAN, require_manual_approval : BOOLEAN,
     paper_trading_enabled : BOOLEAN,
     max_trades_per_day : {0, 1},
     active_broker_type : {"angel_one"},
     price_tolerance_percent : {DefaultPriceTolerance}]

\* No trade yet today, any of these settings rows, both services logged in
\* or not.
LimitInit ==
    /\ settings \in LimitSettingsRows
    /\ trades = <<>>
    /\ legacy_logged_in \in BOOLEAN
    /\ active_logged_in \in BOOLEAN
    /\ book = <<>>
    /\ placed = 0
    /\ paper_trades = 0
    /\ lastOp = Idle
    /\ order_sync_task = "running"
    /\ auto_order = NoOrder
    /\ signal = NoSignal
    /\ brokers = LifespanRegistrations
    /\ instances = <<>>
    /\ default_broker = "angel_one"
    /\ created = 0
    /\ returned = NoReturn
    /\ backend_logged_in = [b \in RegisteredBrokers |-> FALSE]
    /\ reply = NoReply
    /\ symbol_master = NewSymbolMaster
    /\ threads = <<>>
    /\ cache_file = NoCacheFile
    /\ scrip_master = {}
    /\ now = StartOfClock
    /\ resolution = NoResolution
    /\ broker_config = ActiveConfig

\* The four creators of Trade rows.
LimitNext ==
    \/ create_trade
    \/ execute_trade_from_message
    \/ simulate_telegram_trade
    \/ process_signal
    \/ deliver_response

LimitSpec == LimitInit /\ [][LimitNext]_vars

\* ------------------------------------------------ main.py: the polling loop
\* One more open trade than a round of the periodic sweep takes.
PollTrades == SyncBatchLimit + 1

\* The store holds PollTrades submitted trades. The order book lists the order
\* of the last one in any vendor status, lists the order of the one before it
\* or not, and lists none of the others (orders of days before);
\* broker_service is logged in and the task of the lifespan is running.
PollInit ==
    /\ settings = DefaultSettings
    /\ \E status \in [{PollTrades - 1, PollTrades} -> {"SUBMITTED", "OPEN"}] :
           trades = [k \in 1..PollTrades |->
                        SweepRow(k, IF k < PollTrades - 1 THEN "SUBMITTED" ELSE status[k])]
    /\ legacy_logged_in = TRUE
    /\ active_logged_in = FALSE
    /\ \E listed \in {{PollTrades}, {PollTrades - 1, PollTrades}} :
           book \in [{OrderId(k) : k \in listed} -> VendorStatuses]
    /\ placed = PollTrades
    /\ paper_trades = 0
    /\ lastOp = Idle
    /\ order_sync_task = "running"
    /\ auto_order = NoOrder
    /\ signal = NoSignal
    /\ brokers = LifespanRegistrations
    /\ instances = <<>>
    /\ default_broker = "angel_one"
    /\ created = 0
    /\ returned = NoReturn
    /\ backend_logged_in = [b \in RegisteredBrokers |-> FALSE]
    /\ reply = NoReply
    /\ symbol_master = NewSymbolMaster
    /\ threads = <<>>
    /\ cache_file = NoCacheFile
    /\ scrip_master = {}
    /\ now = StartOfClock
    /\ resolution = NoResolution
    /\ broker_config = ActiveConfig

\* Nothing but the polling and the broker's own progress on the orders.
PollNext ==
    \/ periodic_order_status_sync
    \/ BrokerOrderUpdate
    \/ deliver_response

\* A round of the loop that fetched the order book and went through its
\* selection without an exception (main.py 62-117).
PollSucceeds ==
    /\ periodic_order_status_sync
    /\ lastOp'.detail = "Synced"

\* The loop of the task never ends (while True with sleep(15)), every round
\* comes to its end, and the order book keeps being fetched successfully.
PollSpec ==
    /\ PollInit
    /\ [][PollNext]_vars
    /\ WF_vars(deliver_response)
    /\ SF_vars(PollSucceeds)

\* ------------------------------------------- the price check per backend
\* Settings rows that let the gate reach its price check, with each of the
\* registered backends as the active broker.
PriceSettingsRows ==
    [exists : {TRUE},
     auto_trade_enabled : {TRUE}, require_manual_approval : {FALSE},
     paper_trading_enabled : BOOLEAN,
     max_trades_per_day : {DefaultMaxTradesPerDay},
     active_broker_type : RegisteredBrokers,
     price_tolerance_percent : {1, DefaultPriceTolerance}]

\* One signal reaches process_signal with no trade made today, whichever
\* backend is the active broker, logged in or not.
PriceInit ==
    /\ settings \in PriceSettingsRows
    /\ trades = <<>>
    /\ book = <<>>
    /\ placed = 0
    /\ legacy_logged_in = FALSE
    /\ brokers = LifespanRegistrations
    /\ active_logged_in \in BOOLEAN
    /\ paper_trades = 0
    /\ lastOp = Idle
    /\ order_sync_task = "running"
    /\ auto_order = NoOrder
    /\ signal \in GateSignals
    /\ instances = <<>>
    /\ default_broker = "angel_one"
    /\ created = 0
    /\ returned = NoReturn
    /\ backend_logged_in = [b \in RegisteredBrokers |-> FALSE]
    /\ reply = NoReply
    /\ symbol_master = NewSymbolMaster
    /\ threads = <<>>
    /\ cache_file = NoCacheFile
    /\ scrip_master = {}
    /\ now = StartOfClock
    /\ resolution = NoResolution
    /\ broker_config = ActiveConfig

PriceNext ==
    \/ process_signal
    \/ deliver_response

PriceSpec == PriceInit /\ [][PriceNext]_vars

\* ================================================================ claims
\* The position of a status in PENDING < SUBMITTED < OPEN < terminal.
Rank(status) ==
    IF status = "PENDING" THEN 0
    ELSE IF status = "SUBMITTED" THEN 1
    ELSE IF status = "OPEN" THEN 2
    ELSE 3

\* The rows after the step, and the status a row had before it (a row the step
\* created had none).
TradeIdsAfter == 1..Len(trades')
StatusBefore(t) == IF t \in TradeIds THEN trades[t].status ELSE NULL
OrderIdBefore(t) == IF t \in TradeIds THEN trades[t].order_id ELSE NULL

\* C1: in every step the status of every trade stays, or moves up in
\* PENDING < SUBMITTED < OPEN < {EXECUTED, REJECTED, CANCELLED}, or moves from
\* a non-terminal status to FAILED.
C1_StatusSequenceMonotone ==
    [][\A t \in TradeIds :
          LET before == trades[t].status
              after == trades'[t].status
          IN  \/ after = before
              \/ /\ before # "FAILED"
                 /\ after # "FAILED"
                 /\ Rank(before) <= Rank(after)
              \/ /\ before \in NonTerminal
                 /\ after = "FAILED"]_vars

\* C2: no step changes the status of a trade that is EXECUTED, REJECTED or
\* CANCELLED.
C2_TerminalStatusKept ==
    [][\A t \in TradeIds :
          trades[t].status \in Terminal
              => trades'[t].status = trades[t].status]_vars

\* C3: no step changes the status of a trade that is FAILED.
C3_FailedNeverLeft ==
    [][\A t \in TradeIds :
          trades[t].status = "FAILED" => trades'[t].status = "FAILED"]_vars

\* The requests that ask for the execution of one trade.
ExplicitExecutionRequests ==
    {"approve_trade(approved=True)", "execute_trade", "execute_bracket_order",
     "simulate_telegram_trade(execute)"}

\* The handlers that create a trade or receive a signal.
CreationHandlers ==
    {"create_trade", "process_signal", "execute_trade_from_message",
     "simulate_telegram_trade"}

\* C4: while auto-trading is disabled or manual approval is required, a step
\* that calls place_order (real or paper) is an explicit approve or execute
\* request, and a step that creates a trade or receives a signal calls no
\* place_order, accepts no order, and leaves the store as it was or with one
\* new PENDING row.
C4_NoOrderWithoutRequest ==
    [][(~settings.auto_trade_enabled \/ settings.require_manual_approval)
          => /\ (lastOp'.place # "none" \/ placed' # placed
                    \/ paper_trades' # paper_trades)
                    => lastOp'.op \in ExplicitExecutionRequests
             /\ lastOp'.op \in CreationHandlers
                    => /\ lastOp'.place = "none"
                       /\ placed' = placed
                       /\ paper_trades' = paper_trades
                       /\ \/ trades' = trades
                          \/ /\ Len(trades') = Len(trades) + 1
                             /\ SubSeq(trades', 1, Len(trades)) = trades
                             /\ trades'[Len(trades')].status = "PENDING"
                             /\ trades'[Len(trades')].order_id = NULL]_vars

\* A trade was created, and stayed PENDING, while the broker was logged in and
\* auto-trading was on but manual approval was required.
C4_Witness ==
    /\ lastOp.op = "create_trade"
    /\ lastOp.trade \in TradeIds
    /\ trades[lastOp.trade].status = "PENDING"
    /\ settings.auto_trade_enabled
    /\ settings.require_manual_approval
    /\ legacy_logged_in

\* C5: a successful place_order leaves its trade SUBMITTED unless the status
\* check of the same step reports otherwise, and a trade becomes EXECUTED only
\* in a step whose status check or sweep has found the order complete
\* (internal status EXECUTED) and recorded that broker status on the trade.
C5_ExecutedOnlyOnComplete ==
    [][\A t \in TradeIdsAfter :
          (trades'[t].status = "EXECUTED" /\ StatusBefore(t) # "EXECUTED")
              => /\ trades'[t].order_id \in DOMAIN book'
                 /\ InternalStatus(book'[trades'[t].order_id]) = "EXECUTED"
                 /\ trades'[t].broker_status = book'[trades'[t].order_id]]_vars

\* C6 (the state part): a trade in SUBMITTED or OPEN has an order id.
C6_OrderIdPresent ==
    \A t \in TradeIds :
        trades[t].status \in {"SUBMITTED", "OPEN"} => trades[t].order_id # NULL

\* C6 (the step part): a trade becomes SUBMITTED only in a step in which
\* place_order or place_bracket_order answered success for it, and the step
\* sets its order_id to the id of the order just accepted.
C6_SubmittedStep ==
    \A t \in TradeIdsAfter :
        (trades'[t].status = "SUBMITTED" /\ StatusBefore(t) # "SUBMITTED")
            => /\ lastOp'.place = "success"
               /\ lastOp'.trade = t
               /\ placed' = placed + 1
               /\ trades'[t].order_id = OrderId(placed')

\* C6: a trade becomes SUBMITTED only in a step in which the broker accepted
\* its order, with order_id set to the returned id in that step; hence every
\* SUBMITTED or OPEN trade has a non-null order_id.
C6_SubmittedHasOrderId ==
    /\ []C6_OrderIdPresent
    /\ [][C6_SubmittedStep]_vars

\* A trade has just been submitted and the status check could not be made.
C6_Witness ==
    /\ lastOp.op = "approve_trade(approved=True)"
    /\ lastOp.place = "success"
    /\ trades[lastOp.trade].status = "SUBMITTED"
    /\ trades[lastOp.trade].order_id = OrderId(placed)

\* The handlers that call place_order of a broker service.
PlaceOrderHandlers ==
    {"create_trade", "approve_trade(approved=True)", "execute_trade",
     "process_signal", "execute_trade_from_message",
     "simulate_telegram_trade(execute)"}

\* C7: when place_order answers {status: error, message: m}, the step leaves
\* the trade FAILED with error_message m and with the order_id it had before,
\* and the brokerage has accepted no order; on every path that calls
\* place_order.
C7_PlaceErrorFailsTrade ==
    [][(lastOp'.op \in PlaceOrderHandlers
            /\ lastOp'.place \in {"insufficient margin",
                                  "Session expired, please re-login"})
          => /\ lastOp'.trade \in TradeIdsAfter
             /\ trades'[lastOp'.trade].status = "FAILED"
             /\ trades'[lastOp'.trade].error_message = lastOp'.place
             /\ trades'[lastOp'.trade].order_id = OrderIdBefore(lastOp'.trade)
             /\ placed' = placed
             /\ book' = book]_vars

\* The auto-trade path has failed a trade with the brokerage's message, after
\* the manual path had failed for another reason.
C7_Witness ==
    /\ lastOp.op = "process_signal"
    /\ lastOp.place = "insufficient margin"
    /\ trades[lastOp.trade].status = "FAILED"
    /\ trades[lastOp.trade].error_message = "insufficient margin"

Sweeps == {"sync_all_order_statuses", "periodic_order_status_sync"}

\* C9: a sweep, manual or periodic, leaves every field of a trade whose
\* order_id the order book does not list as it was.
C9_AbsentOrderUntouched ==
    [][lastOp'.op \in Sweeps
          => \A t \in TradeIds :
                 trades[t].order_id \notin DOMAIN book
                     => trades'[t] = trades[t]]_vars

\* The periodic sweep fetched the order book, which does not list the order of
\* a SUBMITTED trade, and the trade is still SUBMITTED.
C9_Witness ==
    /\ lastOp.op = "periodic_order_status_sync"
    /\ lastOp.detail = "Synced"
    /\ \E t \in TradeIds :
           /\ trades[t].status = "SUBMITTED"
           /\ trades[t].order_id # NULL
           /\ trades[t].order_id \notin DOMAIN book

\* C10: after a sweep, manual or periodic, that fetched the order book, every
\* trade that was PENDING, SUBMITTED or OPEN with an order_id the book lists
\* under an internal status of EXECUTED, REJECTED, CANCELLED or OPEN has that
\* status.
C10_SweepSetsInternalStatus ==
    [][(lastOp'.op \in Sweeps /\ lastOp'.detail = "Synced")
          => \A t \in TradeIds :
                 (/\ trades[t].status \in NonTerminal
                  /\ trades[t].order_id \in DOMAIN book
                  /\ InternalStatus(book[trades[t].order_id])
                         \in Terminal \cup {"OPEN"})
                 => trades'[t].status
                        = InternalStatus(book[trades[t].order_id])]_vars

\* C11: when the update of one trade raises during a sweep, the sweep still
\* handles the other trades of its selection and their updates are stored.
C11_SweepErrorIsolated ==
    [][ (lastOp'.op \in Sweeps /\ lastOp'.detail \in {UpdateError, SyncErrorLog})
        => \E raising \in TradeIds :
             \A t \in TradeIds \ {raising} :
                (trades[t].status \in NonTerminal /\ trades[t].order_id # NULL)
                => trades'[t].status =
                     (IF lastOp'.op = "sync_all_order_statuses"
                      THEN ManualSyncTrade(trades[t])
                      ELSE PeriodicSyncTrade(trades[t])).status ]_vars

\* C12: the periodic task commits each trade's update on its own, never one
\* batch for the sweep: a commit of the task changes at most one Trade row
\* (so a cancellation between two commits finds every row whole).
C12_UpdateCommittedPerTrade ==
    [][ lastOp'.op = "periodic_order_status_sync"
        => Cardinality({t \in TradeIds : trades'[t] # trades[t]}) <= 1 ]_vars

\* A step of process_signal that refuses: its result is not "executed", the
\* store has no new Trade row, and neither the broker nor the paper trading
\* service got an order.
GateRefused ==
    /\ lastOp'.op = "process_signal"
    /\ lastOp'.detail # "executed"
    /\ lastOp'.trade = 0
    /\ trades' = trades
    /\ placed' = placed
    /\ book' = book
    /\ paper_trades' = paper_trades
    /\ auto_order'.venue = "none"

\* The conditions under which the gate has to refuse its signal.
NoBrokerActive ==
    \/ settings.active_broker_type = NULL
    \/ settings.active_broker_type \notin RegisteredBrokers
LtpNotFetched ==
    \/ ~active_logged_in
    \/ signal.ltp_result.status # "success"
    \/ signal.ltp_result.ltp = 0
FailClosedCase ==
    /\ settings.exists
    /\ \/ ~settings.auto_trade_enabled
       \/ settings.require_manual_approval
       \/ Len(trades) >= settings.max_trades_per_day
       \/ NoBrokerActive
       \/ ~active_logged_in /\ ~settings.paper_trading_enabled
       \/ ~signal.has_fields
       \/ signal.found_on \cap {signal.exchange, "BSE"} = {}
       \/ LtpNotFetched

\* C13: the gate fails closed: with auto-trading off, manual approval required,
\* the day's trade count at max_trades_per_day, no active broker, the active
\* broker logged out and paper mode off, a signal without symbol or action, an
\* instrument found on neither exchange, or no last traded price, process_signal
\* returns a non-executed result, creates no Trade row and places no order.
C13_GateFailsClosed ==
    [][ (lastOp'.op = "process_signal" /\ FailClosedCase) => GateRefused ]_vars

\* The gate refused a signal whose instrument is on neither exchange, all
\* other checks passed.
C13_Witness ==
    /\ lastOp.op = "process_signal"
    /\ lastOp.detail = "Instrument not found"
    /\ lastOp.trade = 0
    /\ signal.found_on = {}
    /\ signal.has_fields
    /\ settings.auto_trade_enabled
    /\ trades = <<>>

\* C14: with auto_trade_enabled = false in the settings row the gate refuses
\* with the reason "Auto-trade is disabled", whatever the signal, the other
\* settings, the broker's state and the trade count are.
C14_AutoTradeDisabledReason ==
    [][ (/\ lastOp'.op = "process_signal"
         /\ settings.exists
         /\ ~settings.auto_trade_enabled)
        => (GateRefused /\ lastOp'.detail = "Auto-trade is disabled") ]_vars

\* The reason was given although manual approval is required too, the trade
\* count is at its ceiling, no broker is active and the signal has no symbol.
C14_Witness ==
    /\ lastOp.op = "process_signal"
    /\ lastOp.detail = "Auto-trade is disabled"
    /\ settings.require_manual_approval
    /\ Len(trades) >= settings.max_trades_per_day
    /\ NoBrokerActive
    /\ ~signal.has_fields

\* The signal reaches the price check with an entry price and a live price.
PriceCheckReached ==
    /\ settings.exists
    /\ ~FailClosedCase
    /\ signal.entry_price > 0
    /\ signal.ltp_result.ltp > 0

\* |entry - p| / p * 100 > tolerance, in integers (p > 0).
DeviationExceeds(entry, p, tolerance) ==
    Abs(entry - p) * 100 > tolerance * p

LimitExpected ==
    /\ signal.entry_price # 0
    /\ Abs(signal.entry_price - signal.ltp_result.ltp) * 1000
         > LimitOrderPerMille * signal.ltp_result.ltp

\* C16 as stated: every order the passing gate places, with the broker or
\* with the paper trading service, is LIMIT at the signal's entry price when
\* the entry price is more than 0.5% off the live price (never at the live
\* price), and a MARKET order without a price from the broker otherwise.
C16_OrderTypeOfEveryOrder ==
    [][ (lastOp'.op = "process_signal" /\ lastOp'.trade # 0)
        => IF LimitExpected
           THEN /\ auto_order'.order_type = "LIMIT"
                /\ auto_order'.price = signal.entry_price
           ELSE /\ auto_order'.order_type # "LIMIT"
                /\ auto_order'.venue = "broker"
                     => (auto_order'.order_type = "MARKET" /\ auto_order'.price = 0)
      ]_vars

\* C16, for the order placed with the active broker (paper mode off): it is
\* MARKET without a price when the signal has no entry price or the entry
\* price is within 0.5% of the live price, and LIMIT at the signal's entry
\* price otherwise.
C16_BrokerOrderType ==
    [][ (/\ lastOp'.op = "process_signal"
         /\ lastOp'.trade # 0
         /\ ~settings.paper_trading_enabled)
        => /\ auto_order'.venue = "broker"
           /\ IF LimitExpected
              THEN /\ auto_order'.order_type = "LIMIT"
                   /\ auto_order'.price = signal.entry_price
              ELSE /\ auto_order'.order_type = "MARKET"
                   /\ auto_order'.price = 0 ]_vars

\* A LIMIT order at the entry price 102 went to the broker, the live price
\* being 100.
C16_Witness ==
    /\ lastOp.op = "process_signal"
    /\ auto_order.venue = "broker"
    /\ auto_order.order_type = "LIMIT"
    /\ auto_order.price = 102
    /\ signal.ltp_result.ltp = 100

\* C17: on each backend, a call of any method of the interface while the
\* backend is not logged in returns a not-logged-in error result (an error
\* result, with the message "Not logged in" or with none) and does not go to
\* the network.
C17_NotLoggedInFailsFast ==
    \A backend \in RegisteredBrokers :
        (/\ reply.backend = backend
         /\ reply.method \in InterfaceMethods
         /\ ~backend_logged_in[backend])
        => /\ reply.result \in {ServiceNotLoggedInMessage, "error"}
           /\ ~reply.network

InternalStatuses == {"EXECUTED", "REJECTED", "CANCELLED", "OPEN", "PENDING"}

\* C18: every order status a backend reports, through get_order_status and
\* through get_all_order_statuses, carries an internal status that is one of
\* EXECUTED, REJECTED, CANCELLED, OPEN and PENDING.
C18_InternalStatusReported ==
    (reply.method \in StatusQueries /\ reply.result = "success")
    => reply.internal_status \in InternalStatuses

\* C19: create_broker(id, cache=True) returns the instance cached for id when
\* there is one and otherwise caches the instance it constructs; no call but
\* unregister and clear_instances removes or replaces a cached instance; and
\* create_broker(id, cache=False) returns an instance never constructed
\* before and leaves the cache as it was.
Cached == DOMAIN instances

CacheKept ==
    \A b \in Cached : b \in DOMAIN instances' /\ instances'[b] = instances[b]

UnknownRequested ==
    /\ returned.call \in {"create_broker", "get_active_broker"}
    /\ returned.broker_type # NULL
    /\ returned.broker_type \notin Registered

C20_UnknownBrokerSignalled ==
    UnknownRequested => returned.error = "ValueError"

\* C21: get_active_broker returns the instance of the broker type the
\* settings name, and without a settings row or with an empty
\* active_broker_type it returns the instance of the default (first
\* registered) broker, not None.
ActiveSettingUnset == ~settings.exists \/ settings.active_broker_type = NULL

ReturnedInstanceOf(broker_type) ==
    /\ returned.instance # 0
    /\ broker_type \in Cached
    /\ returned.instance = instances[broker_type]

C21_ActiveBrokerOrDefault ==
    returned.call = "get_active_broker" =>
        IF ActiveSettingUnset
        THEN default_broker # NULL => ReturnedInstanceOf(default_broker)
        ELSE settings.active_broker_type \in Registered =>
                 ReturnedInstanceOf(settings.active_broker_type)

\* C22: every broker type with a cached instance is registered, the default
\* broker is None or registered, unregister(id) leaves no cached instance of
\* id, and an instance create_broker returns is the one cached at the call
\* or one constructed by the call.
CacheWithinRegistered ==
    /\ Cached \subseteq Registered
    /\ default_broker # NULL => default_broker \in Registered

UnregisterClearsCache ==
    /\ returned'.call = "unregister" =>
           /\ returned'.broker_type \notin DOMAIN instances'
           /\ returned'.broker_type \notin {brokers'[i] : i \in DOMAIN brokers'}
    /\ (returned'.call = "create_broker" /\ returned'.instance # 0) =>
           \/ returned'.instance > created
           \/ /\ returned'.broker_type \in Cached
              /\ returned'.instance = instances[returned'.broker_type]

C22_CacheAndDefaultRegistered ==
    []CacheWithinRegistered /\ [][UnregisterClearsCache]_vars

\* unregister has returned after instances were constructed: its broker type
\* is neither registered nor cached, while another type still has its
\* cached instance and the default broker is set.
C22_Witness ==
    /\ returned.call = "unregister"
    /\ returned.broker_type \notin Registered \cup Cached
    /\ Cached # {}
    /\ created > Cardinality(Cached)
    /\ default_broker # NULL

\* C23: at most one caller is past the load-in-progress flag of
\* load_instruments (reading the cache, downloading or building the index)
\* at any time, whatever the interleaving of the callers.
LoadPcs ==
    {"read_cache", "download", "write_cache", "reset_instruments",
     "reset_name_index", "build_index", "set_loaded", "finally"}

Loading == {t \in DOMAIN threads : threads[t].pc \in LoadPcs}

CompleteIndexes ==
    {BuildIndex(instruments_list).instruments :
        instruments_list \in {l \in scrip_master : WellFormed(l)}}

C24_ReadersSeeCompleteIndex ==
    \A t \in DOMAIN threads :
        threads[t].seen.loaded =>
            threads[t].seen.instruments \in CompleteIndexes

\* C25: once a build has run to its end, every instrument listed in the name
\* index is the value of at least one key of the exact-match map.
BuildDone ==
    /\ symbol_master.loaded
    /\ Loading = {}

InNameIndex ==
    UNION {{symbol_master.name_index.val[n][j] :
               j \in DOMAIN symbol_master.name_index.val[n]} :
           n \in DOMAIN symbol_master.name_index.val}

C25_NameIndexWithinExactMap ==
    BuildDone => InNameIndex \subseteq Values(symbol_master.instruments)

\* C26: every recognized derivative (option or future) on SENSEX or BANKEX
\* resolves to exchange BFO and every other derivative to NFO, confirmed
\* from the index or constructed.
Resolved == resolution.raw_symbol # NULL

IsDerivative == resolution.result.instrument_type \in {"OPTION", "FUTURE"}

C26_DerivativeExchange ==
    (Resolved /\ IsDerivative) =>
        resolution.result.exchange =
            IF resolution.result.underlying \in {"SENSEX", "BANKEX"}
            THEN "BFO" ELSE "NFO"

\* C27: on a fixed index, a call of resolve_symbol with the symbol and
\* exchange of the call before it returns the resolved_symbol and the token
\* that call returned, whatever time has passed between the two.
C27_SameInputSameResolution ==
    [][(/\ Resolved
        /\ resolution'.raw_symbol = resolution.raw_symbol
        /\ resolution'.exchange = resolution.exchange) =>
           /\ resolution'.result.resolved_symbol =
                  resolution.result.resolved_symbol
           /\ resolution'.result.token = resolution.result.token]_vars

\* C28: a result with success and a token has the token of an index entry
\* of that symbol or name on that exchange; without such an entry a
\* derivative resolves to the constructed symbol with success, no token and
\* a message flagging it as unvalidated, and an equity resolves without
\* success and without token.
IndexConfirms(result) ==
    \E inst \in Values(symbol_master.instruments) :
        /\ inst.exch_seg = result.exchange
        /\ inst.token = result.token
        /\ \/ inst.symbol = result.resolved_symbol
           \/ Upper(inst.name) = result.resolved_symbol

C28_UnconfirmedResolution ==
    Resolved =>
        LET result == resolution.result
        IN  /\ (result.success /\ result.token # NULL) => IndexConfirms(result)
            /\ result.token = NULL =>
                   IF IsDerivative
                   THEN /\ result.success
                        /\ result.message =
                               "Constructed symbol (unvalidated): "
                                   \o result.resolved_symbol
                   ELSE ~result.success
            /\ ~result.success => result.token = NULL

\* An option no index entry confirms has been resolved to its constructed
\* symbol.
C28_Witness ==
    /\ Resolved
    /\ resolution.result.instrument_type = "OPTION"
    /\ resolution.result.token = NULL
    /\ resolution.result.success
    /\ ~IndexConfirms(resolution.result)


\* The trade the bracket-order request is for misses a price.
PriceMissing(trade) ==
    \/ trade.entry_price = 0
    \/ trade.target_price = 0
    \/ trade.stop_loss = 0

\* The step is a request to execute_bracket_order.
BracketStep == lastOp = Idle /\ lastOp'.op = "execute_bracket_order"

\* C29: a bracket-order request places an order only for a trade with entry
\* price, target price and stop-loss all set; with one of them missing it is
\* rejected with no broker call and no change to the trade; and when the
\* backend has no bracket orders the request is answered with an explicit
\* error, the trade becomes FAILED, and no order is placed in its stead.
C29_BracketOrderPath ==
    [][BracketStep =>
         LET t == lastOp'.trade
         IN  /\ placed' # placed => ~PriceMissing(trades[t])
             /\ PriceMissing(trades[t]) =>
                    /\ lastOp'.code = 400
                    /\ lastOp'.place = "none"
                    /\ trades' = trades
                    /\ placed' = placed /\ book' = book
             /\ lastOp'.place = "raise" =>
                    /\ lastOp'.detail # NULL
                    /\ trades'[t].status = "FAILED"
                    /\ placed' = placed /\ book' = book]_vars

\* The step is execute_trade_internal on a stored trade, past the login check.
ExecuteStep ==
    /\ lastOp = Idle
    /\ legacy_logged_in
    /\ \/ lastOp'.op = "execute_trade"
       \/ /\ lastOp'.op = "approve_trade(approved=True)"
          /\ trades[lastOp'.trade].status = "PENDING"

\* C30: when the resolution of the trade's symbol fails, the execution goes
\* on to place the order; and when that placement fails, the trade is FAILED
\* and its notes hold both the resolution's warning and the placement error.
C30_ResolutionFailureInNotes ==
    [][(ExecuteStep /\ ~ResolutionOf(trades[lastOp'.trade]).success) =>
         LET t == lastOp'.trade
         IN  /\ lastOp'.place # "none"
             /\ lastOp'.place \in PlaceErrors =>
                    /\ trades'[t].status = "FAILED"
                    /\ trades'[t].notes # NULL
                    /\ Contains(trades'[t].notes,
                                ResolutionOf(trades[t]).message)
                    /\ Contains(trades'[t].notes, lastOp'.place)]_vars

\* C31: every broker-session failure sets the stored configuration's
\* is_active to false: a login request whose credentials do not decrypt, and
\* a place_order that finds the session expired ("Session expired, please
\* re-login") while executing a trade.
DecryptionFailure ==
    /\ broker_login \/ login_specific_broker
    /\ broker_config.exists
    /\ ~broker_config.decryptable

SessionExpiry ==
    /\ lastOp = Idle
    /\ lastOp' # Idle
    /\ lastOp'.place = SessionExpired

Request == parse_fno_symbol(Upper(Strip(resolution.raw_symbol)))

OptionRequest == resolution.raw_symbol # NULL /\ Request.kind = "option"

Matches(fno_info, symbol) ==
    /\ Contains(symbol, fno_info.symbol)
    /\ Contains(symbol, Str(fno_info.strike))
    /\ Contains(symbol, fno_info.option_type)

\* The candidates the expiry hint leaves.
Hinted(fno_info, candidates) ==
    IF /\ fno_info.expiry_hint # NULL
       /\ \E c \in candidates : Contains(Upper(c.symbol), fno_info.expiry_hint)
    THEN {c \in candidates : Contains(Upper(c.symbol), fno_info.expiry_hint)}
    ELSE candidates

\* The result is the candidate no other candidate precedes.
SmallestOf(candidates, result) ==
    /\ result.success
    /\ \E c \in candidates :
           /\ c.symbol = result.resolved_symbol
           /\ c.token = result.token
    /\ \A c \in candidates : ~Less(c.symbol, result.resolved_symbol)

\* The instruments of the index that match the request.
IndexCandidates(fno_info) ==
    {SearchResult(inst) : inst \in
        {i \in Values(symbol_master.instruments) :
            /\ i.exch_seg = TargetExchange(fno_info)
            /\ Matches(fno_info, i.symbol)}}

C32_SmallestOfTheIndex ==
    OptionRequest =>
        /\ resolution.result.success
        /\ IndexCandidates(Request) # {} =>
               SmallestOf(Hinted(Request, IndexCandidates(Request)),
                          resolution.result)

\* The instruments the search of the index returned: the first 20 that hold
\* underlying, strike and option type in a row, or with none of those the
\* first 50 that hold the underlying.
Range(seq) == {seq[i] : i \in DOMAIN seq}

Retrieved(fno_info) ==
    IF search_symbol(symbol_master.instruments,
                     fno_info.symbol \o Str(fno_info.strike)
                         \o fno_info.option_type,
                     TargetExchange(fno_info), 20) # <<>>
    THEN Range(search_symbol(symbol_master.instruments,
                             fno_info.symbol \o Str(fno_info.strike)
                                 \o fno_info.option_type,
                             TargetExchange(fno_info), 20))
    ELSE Range(search_symbol(symbol_master.instruments, fno_info.symbol,
                             TargetExchange(fno_info), 50))

RetrievedCandidates(fno_info) ==
    {r \in Retrieved(fno_info) : Matches(fno_info, r.symbol)}

\* What the resolver does return: the smallest among the matching instruments
\* the search returned.
SmallestOfTheRetrieved ==
    OptionRequest =>
        /\ resolution.result.success
        /\ RetrievedCandidates(Request) # {} =>
               SmallestOf(Hinted(Request, RetrievedCandidates(Request)),
                          resolution.result)

\* C33: approve_trade acts only on a PENDING trade. For a trade in any other
\* status it answers 400 "Trade is not pending approval" and changes nothing;
\* a rejection of a PENDING trade sets it to REJECTED and places no order;
\* an approval runs one execution attempt: the trade leaves PENDING, and
\* place_order is called once if broker_service is logged in, else not at all.
ApproveStep(approved) ==
    /\ lastOp = Idle
    /\ lastOp'.op = IF approved THEN "approve_trade(approved=True)"
                    ELSE "approve_trade(approved=False)"

NoOrderPlaced ==
    /\ lastOp'.place = "none"
    /\ placed' = placed
    /\ book' = book

C33_ApproveOnlyPending ==
    [][\A approved \in BOOLEAN :
          ApproveStep(approved) =>
              IF trades[lastOp'.trade].status # "PENDING"
              THEN /\ lastOp'.code = 400
                   /\ lastOp'.detail = NotPendingDetail
                   /\ trades' = trades
                   /\ NoOrderPlaced
              ELSE IF ~approved
              THEN /\ trades'[lastOp'.trade].status = "REJECTED"
                   /\ NoOrderPlaced
              ELSE /\ trades'[lastOp'.trade].status # "PENDING"
                   /\ placed' <= placed + 1
                   /\ IF legacy_logged_in THEN lastOp'.place \in PlaceResults
                      ELSE NoOrderPlaced]_vars

\* An approval or rejection of a trade that is no longer PENDING was refused.
C33_Witness ==
    /\ lastOp.op \in {"approve_trade(approved=True)",
                      "approve_trade(approved=False)"}
    /\ lastOp.code = 400
    /\ lastOp.detail = NotPendingDetail
    /\ trades[lastOp.trade].status # "PENDING"

\* C34: with paper trading enabled, a valid signal is executed as a paper
\* trade although the active broker is not logged in: the not-logged-in check
\* does not refuse it, and the paper order is placed.
PaperSignalValid ==
    /\ settings.exists
    /\ settings.paper_trading_enabled
    /\ SettingsRefusal = "pass"
    /\ ActiveBrokerType # NULL
    /\ signal.has_fields
    /\ InstrumentFound(signal.exchange, signal.found_on)
    /\ check_price_availability(signal.entry_price,
                                AngelOne_get_ltp(TRUE, signal.ltp_result),
                                settings.price_tolerance_percent) = "available"

C34_PaperTradeWhileLoggedOut ==
    [][ (/\ lastOp'.op = "process_signal"
         /\ PaperSignalValid
         /\ ~active_logged_in)
        => /\ lastOp'.detail # NotLoggedInDetail
           /\ auto_order'.venue = "paper" ]_vars

\* What the gate does: no paper order is placed while the active broker is
\* logged out, for get_ltp gives no price then.
NoPaperOrderWhileLoggedOut ==
    (lastOp.op = "process_signal" /\ auto_order.venue = "paper")
        => active_logged_in

\* C35: one trade never results in two broker orders: place_order accepts an
\* order for a stored trade only if the trade has no order yet.
OrderAccepted ==
    /\ lastOp = Idle
    /\ lastOp'.place = "success"
    /\ lastOp'.trade \in DOMAIN trades
    /\ placed' = placed + 1

C35_OneOrderPerTrade ==
    [][OrderAccepted => trades[lastOp'.trade].order_id = NULL]_vars

\* C36: a login call that returns an error leaves is_logged_in false, also
\* when the backend was logged in before the call, and logout always leaves
\* it false.
C36_FailedLoginLoggedOut ==
    [][ /\ (reply'.method = "login" /\ reply'.result = "error")
            => ~backend_logged_in'[reply'.backend]
        /\ reply'.method = "logout" => ~backend_logged_in'[reply'.backend] ]_vars

\* C37: processing a signal with paper trading enabled never places an order
\* with the real broker, with paper trading disabled it never creates a paper
\* trade; each processed signal results in at most one order, and the order
\* of a signal that passes the gate is on the side paper_trading_enabled
\* selects.
C37_OrderOnTheSelectedSide ==
    [][ (lastOp = Idle /\ lastOp'.op = "process_signal") =>
          /\ (placed' - placed) + (paper_trades' - paper_trades) \in {0, 1}
          /\ (settings.exists /\ settings.paper_trading_enabled) =>
                 /\ placed' = placed
                 /\ book' = book
                 /\ auto_order'.venue # "broker"
          /\ (settings.exists /\ ~settings.paper_trading_enabled) =>
                 /\ paper_trades' = paper_trades
                 /\ auto_order'.venue # "paper"
          /\ lastOp'.trade # 0 =>
                 auto_order'.venue = IF settings.paper_trading_enabled
                                     THEN "paper" ELSE "broker" ]_vars

\* A signal was executed as a paper trade, and the broker got no order.
C37_Witness ==
    /\ lastOp.op = "process_signal"
    /\ settings.paper_trading_enabled
    /\ auto_order.venue = "paper"
    /\ paper_trades = 1
    /\ placed = 0
    /\ trades[lastOp.trade].status = "EXECUTED"

\* C38: with settings present, a Trade row is created only while the number
\* of the day's Trade rows is below max_trades_per_day, on every path that
\* creates one (create_trade, execute_trade_from_message, simulate-trade,
\* process_signal), so the day's number never exceeds the limit.
C38_CreationBelowDailyLimit ==
    [][ (settings.exists /\ Len(trades') > Len(trades))
            => Len(trades) < settings.max_trades_per_day ]_vars

\* The order of trade t is final at the broker.
FinalAtBroker(t) ==
    /\ trades[t].order_id \in DOMAIN book
    /\ book[trades[t].order_id] \in VendorFinal

\* Trade t has the local status of its order's final vendor status.
LocallyFinal(t) ==
    /\ trades[t].order_id \in DOMAIN book
    /\ trades[t].status = InternalStatus(book[trades[t].order_id])

\* C39: with the broker logged in and the order book fetched successfully
\* again and again, the periodic polling alone gives every trade whose order
\* the broker reports as complete, rejected or cancelled the local status
\* EXECUTED, REJECTED or CANCELLED in the end, however many other open trades
\* there are and even when some of them are never in the order book.
C39_PollingReachesEveryFinalOrder ==
    \A t \in {PollTrades - 1, PollTrades} : FinalAtBroker(t) ~> LocallyFinal(t)

\* The reasons with which the price check says that no price is available.
NoPriceReasons ==
    {"Could not fetch current price", "LTP not available in response",
     PriceCheckError}

\* The active broker is logged in and the vendor answers the quote request
\* with a positive price.
PositiveQuote ==
    /\ active_logged_in
    /\ signal.ltp_result.status = "success"
    /\ signal.ltp_result.ltp > 0

\* C40: whichever registered backend is the active broker, when it is logged
\* in and its get_ltp succeeds with a positive price, the price check of the
\* gate takes the result for an available price: process_signal does not
\* refuse the signal for a price that is missing.
C40_EveryBackendPriceAccepted ==
    [][ (lastOp'.op = "process_signal" /\ PositiveQuote)
        => lastOp'.detail \notin NoPriceReasons ]_vars

\* What the gate does: a signal gets past it (a trade row is created) with
\* Angel One as the active broker only.
OnlyAngelOnePasses ==
    (lastOp.op = "process_signal" /\ lastOp.trade # 0)
        => settings.active_broker_type = "angel_one"

====
